---- MODULE Spec2Model ----
(***************************************************************************)
(* A model of pubengine's Markdown renderer (src/markdown/markdown.go).    *)
(*                                                                         *)
(* Text is a sequence of elements.  A character of the input is a          *)
(* one-character string; the entities html.EscapeString writes are the     *)
(* characters of the entity, one element each.  A literal piece of markup  *)
(* the renderer writes ("<p>", "<a href=\"", ...) is one element holding   *)
(* the whole literal: the concatenation of the elements is the byte string *)
(* of the program.  No literal of the renderer holds a character any of    *)
(* its regular expressions looks for, a literal that holds '<' starts with *)
(* it and one that holds '>' ends with it, so matching over elements is    *)
(* matching over bytes.  NUL stands for the byte 0x00 and BT for the       *)
(* backquote.                                                              *)
(***************************************************************************)
EXTENDS Integers, Sequences, FiniteSets, TLC

VARIABLES
    \* RenderMarkdown (markdown.go:40-263)
    linePool,         \* the lines a document is made of
    lines,            \* the lines of the document read so far
    buf,              \* the output buffer
    imageCount,
    inList, inOrderedList, inPara, inQuote, inCode, codeLang,
    inTable, tableHeaderDone,
    rpc,              \* "loop" while ranging over the lines, "done" after the final flush
    \* one call of FormatInline (markdown.go:313-382)
    s,                \* its argument
    escaped,          \* its local of that name
    inlineCodeBlocks, \* its local of that name
    fcount,           \* the counter behind its imageCount pointer
    fpc,              \* the statement it is at
    \* one call of SafeURL (markdown.go:385-403)
    raw,              \* its argument
    ret,              \* its result
    upc,              \* "call" before, "return" after
    \* concurrent calls of RenderMarkdown (markdown.go:30-50)
    calls,            \* for each call its document, its position, its locals
    counters,         \* the storage of the image counters
    \* one call of ApplyOutsideTags (markdown.go:290-310)
    targ,             \* its argument
    ts,               \* its parameter s, what is left of the argument
    tout,             \* its builder buf
    tpc,              \* "loop" in the loop, "return" after it
    \* the login limiters (main.go:541-563, unnamed/part_004:121-155)
    now,              \* the clock
    attempts,         \* LoginLimiter.attempts
    mattempts,        \* loginLimiter.attempts
    lproc,            \* for each caller the call of Allow it is in
    granted,          \* the calls of Allow that have returned true
    \* the store (markdown.go:414-640)
    table,            \* the rows of the table posts, by slug
    saved,            \* for each slug the post last saved under it, if not deleted since
    sres,             \* the last call of the store and what it returned
    \* the post cache and the handlers that use it (cache.go, unnamed/part_010)
    cache,            \* the fields posts, tags, fetched of the cache
    mu,               \* its mutex: the holder of the write lock, the holders of read locks
    readers,          \* for each reading handler the call of the cache it is in
    writers,          \* for each writing handler the statement it is at
    writes,           \* the number of writes the store has taken
    completed         \* the number of them whose handler has returned

rvars == <<linePool, lines, buf, imageCount, inList, inOrderedList, inPara, inQuote,
           inCode, codeLang, inTable, tableHeaderDone, rpc>>
fvars == <<s, escaped, inlineCodeBlocks, fcount, fpc>>
uvars == <<raw, ret, upc>>
cvars == <<calls, counters>>
avars == <<targ, ts, tout, tpc>>
lvars == <<now, attempts, mattempts, lproc, granted>>
svars == <<table, saved, sres>>
pvars == <<cache, mu, readers, writers, writes, completed>>
ovars == <<cvars, avars, lvars, svars, pvars>>
vars == <<rvars, fvars, uvars, ovars>>

----------------------------------------------------------------------------
(* Strings *)

NUL == "NUL"
\* The backquote, which a string of this module cannot hold.
BT == "BT"

Min(S) == CHOOSE x \in S : \A y \in S : x <= y

\* F of the value of e: a local of the program, assigned once and then read.
With(e, F(_)) == CHOOSE y \in { F(v) : v \in {e} } : TRUE

RECURSIVE Cat(_)
Cat(ss) == IF ss = <<>> THEN <<>> ELSE Head(ss) \o Cat(Tail(ss))

\* s[from:] and s[from:to] of Go, over 1-based positions: the elements from..to.
Sub(str, from, to) == IF from > to THEN <<>> ELSE SubSeq(str, from, to)
From(str, from) == Sub(str, from, Len(str))

HasPrefix(str, p) == Len(str) >= Len(p) /\ SubSeq(str, 1, Len(p)) = p

\* strings.Index: the first position >= from where sub starts, 0 when none.
IndexFrom(str, sub, from) ==
    LET hits == { i \in from..(Len(str) - Len(sub) + 1) :
                    SubSeq(str, i, i + Len(sub) - 1) = sub }
    IN IF hits = {} THEN 0 ELSE Min(hits)

Space == {" ", "\t", "\r", "\n"}
Digit == {"0", "1", "2", "3", "4", "5", "6", "7", "8", "9"}
LowerSeq == <<"a", "b", "c", "d", "e", "f", "g", "h", "i", "j", "k", "l", "m",
             "n", "o", "p", "q", "r", "s", "t", "u", "v", "w", "x", "y", "z">>
UpperSeq == <<"A", "B", "C", "D", "E", "F", "G", "H", "I", "J", "K", "L", "M",
             "N", "O", "P", "Q", "R", "S", "T", "U", "V", "W", "X", "Y", "Z">>
Letter == { LowerSeq[k] : k \in 1..26 } \cup { UpperSeq[k] : k \in 1..26 }

\* strings.ToLower
ToLower(str) ==
    [ i \in 1..Len(str) |->
        IF \E k \in 1..26 : UpperSeq[k] = str[i]
        THEN LowerSeq[CHOOSE k \in 1..26 : UpperSeq[k] = str[i]]
        ELSE str[i] ]

\* strings.TrimSpace
TrimSpace(str) ==
    LET keep == { i \in 1..Len(str) : str[i] \notin Space }
    IN IF keep = {} THEN <<>>
       ELSE SubSeq(str, Min(keep), CHOOSE x \in keep : \A y \in keep : y <= x)

\* strings.TrimRight(str, cutset) and strings.Trim(str, cutset)
TrimRight(str, cutset) ==
    LET keep == { i \in 1..Len(str) : str[i] \notin cutset }
    IN IF keep = {} THEN <<>>
       ELSE SubSeq(str, 1, CHOOSE x \in keep : \A y \in keep : y <= x)
Trim(str, cutset) ==
    LET keep == { i \in 1..Len(str) : str[i] \notin cutset }
    IN IF keep = {} THEN <<>>
       ELSE SubSeq(str, Min(keep), CHOOSE x \in keep : \A y \in keep : y <= x)

\* strings.Split(str, sep) for a one-element separator
RECURSIVE Split(_, _)
Split(str, sep) ==
    With(IndexFrom(str, <<sep>>, 1), LAMBDA i :
        IF i = 0 THEN <<str>>
        ELSE <<Sub(str, 1, i - 1)>> \o With(From(str, i + 1), LAMBDA t : Split(t, sep)))

\* strconv.Itoa, for the counts a line can reach
Itoa(n) ==
    LET d == <<"0", "1", "2", "3", "4", "5", "6", "7", "8", "9">>
    IN IF n < 10 THEN <<d[n + 1]>> ELSE <<d[(n \div 10) + 1], d[(n % 10) + 1]>>

----------------------------------------------------------------------------
(* html.EscapeString and html.UnescapeString *)

\* A plausible slip: the text is copied as it is.
EscapeStringNone(str) == str

EscapeChar(c) ==
    CASE c = "&" -> <<"&", "a", "m", "p", ";">>
      [] c = "<" -> <<"&", "l", "t", ";">>
      [] c = ">" -> <<"&", "g", "t", ";">>
      [] c = "'" -> <<"&", "#", "3", "9", ";">>
      [] c = "\"" -> <<"&", "#", "3", "4", ";">>
      [] OTHER -> <<c>>

RECURSIVE EscapeString(_)
EscapeString(str) ==
    IF str = <<>> THEN <<>>
    ELSE EscapeChar(Head(str)) \o EscapeString(Tail(str))

\* The named entities the model's alphabet can spell (after the '&', without the
\* ';') and the character each stands for; html.UnescapeString takes each with or
\* without the closing ';'.
Entities ==
    << <<<<"a", "m", "p">>, "&">>,
       <<<<"l", "t">>, "<">>,
       <<<<"g", "t">>, ">">> >>

\* The character of a numeric reference &#ddd; ("?" is a character outside the
\* model's alphabet).
CharOfCode(ds) ==
    CASE ds = <<"3", "4">> -> "\""
      [] ds = <<"3", "8">> -> "&"
      [] ds = <<"3", "9">> -> "'"
      [] ds = <<"6", "0">> -> "<"
      [] ds = <<"6", "2">> -> ">"
      [] OTHER -> "?"

\* The longest run of elements of set at the head of str.
RECURSIVE Run(_, _)
Run(str, set) ==
    IF str # <<>> /\ Head(str) \in set THEN <<Head(str)>> \o Run(Tail(str), set)
    ELSE <<>>

SkipSemi(str) == IF str # <<>> /\ Head(str) = ";" THEN Tail(str) ELSE str

RECURSIVE UnescapeString(_)
UnescapeString(str) ==
    IF str = <<>> THEN <<>>
    ELSE IF Head(str) # "&" THEN <<Head(str)>> \o UnescapeString(Tail(str))
    ELSE With(Tail(str), LAMBDA rest :
         With(IF rest # <<>> /\ Head(rest) = "#" THEN Run(Tail(rest), Digit) ELSE <<>>,
              LAMBDA ds :
         LET hit == { k \in 1..Len(Entities) : HasPrefix(rest, Entities[k][1]) }
         IN IF ds # <<>>
            THEN <<CharOfCode(ds)>>
                 \o With(SkipSemi(From(rest, Len(ds) + 2)), LAMBDA t : UnescapeString(t))
            ELSE IF hit # {}
            THEN LET e == Entities[Min(hit)]
                 IN <<e[2]>> \o With(SkipSemi(From(rest, Len(e[1]) + 1)),
                                     LAMBDA t : UnescapeString(t))
            ELSE <<"&">> \o UnescapeString(rest)))

----------------------------------------------------------------------------
(* net/url.Parse, as far as SafeURL reads its result: the error and the     *)
(* scheme.  Over the characters of the model's URLs (no '%', '@' or '[').   *)

\* getScheme: <<ok, scheme, rest>>
RECURSIVE getScheme(_, _)
getScheme(rawURL, i) ==
    IF i > Len(rawURL) THEN <<TRUE, <<>>, rawURL>>
    ELSE LET c == rawURL[i]
         IN IF c \in Letter THEN getScheme(rawURL, i + 1)
            ELSE IF c \in Digit \cup {"+", "-", "."}
            THEN IF i = 1 THEN <<TRUE, <<>>, rawURL>> ELSE getScheme(rawURL, i + 1)
            ELSE IF c = ":"
            THEN IF i = 1 THEN <<FALSE, <<>>, <<>>>>
                 ELSE <<TRUE, Sub(rawURL, 1, i - 1), From(rawURL, i + 1)>>
            ELSE <<TRUE, <<>>, rawURL>>

\* stringContainsCTLByte
CTL == {"\t", "\r", "\n", NUL}

\* The characters parseHost refuses in a host name.
BadHostChar == {" ", "{", "}", "|", "\\", "^", BT}

\* strings.Cut(str, sep), its first result
Before(str, sep) ==
    LET i == IndexFrom(str, <<sep>>, 1)
    IN IF i = 0 THEN str ELSE Sub(str, 1, i - 1)

\* validOptionalPort of the part of the authority from its last ':'
PortOK(authority) ==
    LET cs == { i \in 1..Len(authority) : authority[i] = ":" }
    IN cs = {} \/
       LET last == CHOOSE x \in cs : \A y \in cs : y <= x
       IN \A i \in (last + 1)..Len(authority) : authority[i] \in Digit

\* url.Parse(val): [err, Scheme]
ParseURL(val) ==
    With(Before(val, "#"), LAMBDA u :
    With(getScheme(u, 1), LAMBDA sc :
    With(Before(sc[3], "?"), LAMBDA rest :
    With(Before(From(rest, 3), "/"), LAMBDA authority :
       IF \E i \in 1..Len(u) : u[i] \in CTL THEN [err |-> TRUE, Scheme |-> <<>>]
       ELSE IF ~sc[1] THEN [err |-> TRUE, Scheme |-> <<>>]
       ELSE IF ~HasPrefix(rest, <<"/">>) /\ sc[2] # <<>>
       THEN [err |-> FALSE, Scheme |-> ToLower(sc[2])]
       ELSE IF ~HasPrefix(rest, <<"/">>) /\ (\E i \in 1..Len(Before(rest, "/")) :
                                                Before(rest, "/")[i] = ":")
       THEN [err |-> TRUE, Scheme |-> <<>>]
       ELSE IF HasPrefix(rest, <<"/", "/">>)
               /\ (sc[2] # <<>> \/ ~HasPrefix(rest, <<"/", "/", "/">>))
               /\ ((\E i \in 1..Len(authority) : authority[i] \in BadHostChar)
                   \/ ~PortOK(authority))
       THEN [err |-> TRUE, Scheme |-> <<>>]
       ELSE [err |-> FALSE, Scheme |-> ToLower(sc[2])]))))

----------------------------------------------------------------------------
(* SafeURL (markdown.go:385-403) *)

AllowedSchemes ==
    { <<"h", "t", "t", "p">>, <<"h", "t", "t", "p", "s">>,
      <<"m", "a", "i", "l", "t", "o">>, <<"t", "e", "l">> }

\* A plausible slip: the scheme is compared as written, not lowered.
SchemeAllowedCaseSensitive(parsed, val) == getScheme(Before(val, "#"), 1)[2] \in AllowedSchemes

\* markdown.go:397-402, the switch on the scheme
SchemeAllowed(parsed, val) == ToLower(parsed.Scheme) \in AllowedSchemes

\* A plausible slip: the value is escaped without being unescaped first.
SafeURLNoUnescape(rawurl) ==
    With(TrimSpace(rawurl), LAMBDA val :
        IF val = <<>> THEN <<>>
        ELSE IF HasPrefix(val, <<"/">>) \/ HasPrefix(val, <<"#">>) THEN EscapeString(val)
        ELSE With(ParseURL(val), LAMBDA parsed :
                 IF parsed.err \/ parsed.Scheme = <<>> THEN <<>>
                 ELSE IF SchemeAllowed(parsed, val) THEN EscapeString(val)
                 ELSE <<>>))

SafeURL(rawurl) ==
    With(TrimSpace(UnescapeString(rawurl)), LAMBDA val :
        IF val = <<>> THEN <<>>
        ELSE IF HasPrefix(val, <<"/">>) \/ HasPrefix(val, <<"#">>) THEN EscapeString(val)
        ELSE With(ParseURL(val), LAMBDA parsed :
                 IF parsed.err \/ parsed.Scheme = <<>> THEN <<>>
                 ELSE IF SchemeAllowed(parsed, val) THEN EscapeString(val)
                 ELSE <<>>))

----------------------------------------------------------------------------
(* The regular expressions (markdown.go:17-27), each as the match Go's      *)
(* leftmost-first semantics gives at position p: lazy groups take the       *)
(* shortest text that lets the rest match, greedy ones the longest.         *)
(* NoMatch when the expression does not match at p.                         *)

NoMatch == [end |-> 0]

\* reLink = \[(.*?)\]\((.*?)\)(\^)?
reLinkAt(str, p) ==
    LET n == Len(str)
        qs == { q \in (p + 1)..(n - 1) :
                  /\ str[q] = "]" /\ str[q + 1] = "("
                  /\ \E r \in (q + 2)..n : str[r] = ")" }
    IN IF p > n \/ str[p] # "[" \/ qs = {} THEN NoMatch
       ELSE LET q == Min(qs)
                r == Min({ x \in (q + 2)..n : str[x] = ")" })
                caret == r + 1 <= n /\ str[r + 1] = "^"
            IN [end |-> IF caret THEN r + 1 ELSE r,
                m1 |-> Sub(str, p + 1, q - 1),
                m2 |-> Sub(str, q + 2, r - 1),
                m3 |-> IF caret THEN <<"^">> ELSE <<>>]

\* The tail of reImg, \{([^|}]*?)(?:\|(\d+)\|(\d+))?\}, with its '{' at t.
reImgTail(str, t) ==
    LET n == Len(str)
        stops == { x \in (t + 1)..n : str[x] \in {"|", "}"} }
    IN IF t > n \/ str[t] # "{" \/ stops = {} THEN NoMatch
       ELSE LET x == Min(stops)
                w == Run(From(str, x + 1), Digit)
                y == x + 1 + Len(w)
                h == Run(From(str, y + 1), Digit)
                z == y + 1 + Len(h)
            IN IF str[x] = "}"
               THEN [end |-> x, m3 |-> Sub(str, t + 1, x - 1), m4 |-> <<>>, m5 |-> <<>>]
               ELSE IF /\ w # <<>> /\ y <= n /\ str[y] = "|"
                       /\ h # <<>> /\ z <= n /\ str[z] = "}"
               THEN [end |-> z, m3 |-> Sub(str, t + 1, x - 1), m4 |-> w, m5 |-> h]
               ELSE NoMatch

\* reImg = \!\[(.*?)\]\((.*?)\)\{([^|}]*?)(?:\|(\d+)\|(\d+))?\}
reImgAt(str, p) ==
    LET n == Len(str)
        ok(q, r) == /\ str[q] = "]" /\ str[q + 1] = "("
                    /\ str[r] = ")" /\ reImgTail(str, r + 1) # NoMatch
        qs == { q \in (p + 2)..(n - 1) : \E r \in (q + 2)..n : ok(q, r) }
    IN IF p + 1 > n \/ str[p] # "!" \/ str[p + 1] # "[" \/ qs = {} THEN NoMatch
       ELSE LET q == Min(qs)
                r == Min({ x \in (q + 2)..n : ok(q, x) })
                tail == reImgTail(str, r + 1)
            IN [end |-> tail.end,
                m1 |-> Sub(str, p + 2, q - 1),
                m2 |-> Sub(str, q + 2, r - 1),
                m3 |-> tail.m3, m4 |-> tail.m4, m5 |-> tail.m5]

\* reInlineCode = `([^`]+)`, and reItalic = \*([^*]+)\*, reItalicUnderscore =
\* _([^_]+)_ : a mark, one or more elements that are not the mark, the mark.
reSingleAt(str, p, mark) ==
    LET n == Len(str)
        qs == { q \in (p + 1)..n : str[q] = mark }
    IN IF p > n \/ str[p] # mark \/ qs = {} \/ Min(qs) = p + 1 THEN NoMatch
       ELSE [end |-> Min(qs), m1 |-> Sub(str, p + 1, Min(qs) - 1)]

\* reBold = \*\*(.+?)\*\* and reBoldUnderscore = __(.+?)__
reDoubleAt(str, p, mark) ==
    LET n == Len(str)
        qs == { q \in (p + 3)..(n - 1) : str[q] = mark /\ str[q + 1] = mark }
    IN IF p + 1 > n \/ str[p] # mark \/ str[p + 1] # mark \/ qs = {} THEN NoMatch
       ELSE [end |-> Min(qs) + 1, m1 |-> Sub(str, p + 2, Min(qs) - 1)]

\* reOrderedList = ^(\d+)\.\s : the length of the match at the start of the
\* line, 0 when there is none.
reOrderedListLen(line) ==
    LET ds == Run(line, Digit)
        k == Len(ds)
    IN IF k > 0 /\ k + 2 <= Len(line) /\ line[k + 1] = "." /\ line[k + 2] \in Space
       THEN k + 2 ELSE 0

\* Where a substitution of the expression At finds its next match in str: the
\* first position from p on where At matches, 0 when there is none.
FirstAt(str, p, At(_, _)) ==
    LET hits == { q \in p..Len(str) : At(str, q) # NoMatch }
    IN IF hits = {} THEN 0 ELSE Min(hits)

reInlineCodeAt(str, p) == reSingleAt(str, p, BT)

----------------------------------------------------------------------------
(* FormatInline (markdown.go:313-382), statement by statement *)

\* A plausible slip: an image whose URL is rejected advances the counter too.
RECURSIVE ReplaceImgCountsRejected(_, _, _, _)
ReplaceImgCountsRejected(str, p, ic, done) ==
    With(FirstAt(str, p, reImgAt), LAMBDA q :
        IF q = 0 THEN [out |-> done \o From(str, p), ic |-> ic]
        ELSE With(reImgAt(str, q), LAMBDA match :
             With(done \o Sub(str, p, q - 1), LAMBDA pre :
             With(SafeURL(match.m2), LAMBDA src :
                 LET sized == match.m4 # <<>> /\ match.m5 # <<>>
                     width == IF sized THEN match.m4 ELSE <<"1", "0", "2", "4">>
                     height == IF sized THEN match.m5 ELSE <<"7", "6", "8">>
                     loadAttr == IF ic + 1 = 1 THEN "fetchpriority=\"high\""
                                 ELSE "loading=\"eager\""
                 IN IF src = <<>>
                    THEN ReplaceImgCountsRejected(str, match.end + 1, ic + 1, pre \o match.m1)
                    ELSE ReplaceImgCountsRejected(str, match.end + 1, ic + 1,
                             pre \o <<"<img ", loadAttr, " width=\"">> \o width
                                  \o <<"\" height=\"">> \o height
                                  \o <<"\" alt=\"">> \o match.m1
                                  \o <<"\" src=\"">> \o src
                                  \o <<"\" style=\"">> \o match.m3
                                  \o <<"\" decoding=\"async\"/>">>)))))

\* markdown.go:316-344: reImg.ReplaceAllStringFunc with its closure, from
\* position p on, the counter at ic, done being the text written so far.
\* [out, ic]
RECURSIVE ReplaceImg(_, _, _, _)
ReplaceImg(str, p, ic, done) ==
    With(FirstAt(str, p, reImgAt), LAMBDA q :
        IF q = 0 THEN [out |-> done \o From(str, p), ic |-> ic]
        ELSE With(reImgAt(str, q), LAMBDA match :
             With(done \o Sub(str, p, q - 1), LAMBDA pre :
             With(SafeURL(match.m2), LAMBDA src :
                 LET sized == match.m4 # <<>> /\ match.m5 # <<>>
                     width == IF sized THEN match.m4 ELSE <<"1", "0", "2", "4">>
                     height == IF sized THEN match.m5 ELSE <<"7", "6", "8">>
                     loadAttr == IF ic + 1 = 1 THEN "fetchpriority=\"high\""
                                 ELSE "loading=\"eager\""
                 IN IF src = <<>>
                    THEN ReplaceImg(str, match.end + 1, ic, pre \o match.m1)
                    ELSE ReplaceImg(str, match.end + 1, ic + 1,
                             pre \o <<"<img ", loadAttr, " width=\"">> \o width
                                  \o <<"\" height=\"">> \o height
                                  \o <<"\" alt=\"">> \o match.m1
                                  \o <<"\" src=\"">> \o src
                                  \o <<"\" style=\"">> \o match.m3
                                  \o <<"\" decoding=\"async\"/>">>)))))

AttrsPlain == "\" class=\"underline decoration-2 underline-offset-4\">"
AttrsNewTab ==
    "\" class=\"underline decoration-2 underline-offset-4\" target=\"_blank\" rel=\"noopener noreferrer\">"

\* markdown.go:346-358, the closure of the link substitution
LinkOut(match) ==
    With(SafeURL(match.m2), LAMBDA href :
        IF href = <<>> THEN match.m1
        ELSE <<"<a href=\"">> \o href
             \o <<IF match.m3 = <<"^">> THEN AttrsNewTab ELSE AttrsPlain>>
             \o match.m1 \o <<"</a>">>)

\* markdown.go:345: reLink.ReplaceAllStringFunc
RECURSIVE ReplaceLink(_, _)
ReplaceLink(str, p) ==
    With(FirstAt(str, p, reLinkAt), LAMBDA q :
        IF q = 0 THEN From(str, p)
        ELSE With(reLinkAt(str, q), LAMBDA match :
                 Sub(str, p, q - 1) \o LinkOut(match)
                 \o ReplaceLink(str, match.end + 1)))

\* markdown.go:365
Placeholder(i) == <<NUL, "I", "C">> \o Itoa(i) \o <<NUL>>

\* A plausible slip: the code element is written where the span was, before the
\* emphasis substitutions run.
RECURSIVE ReplaceInlineCodeInPlace(_, _, _, _)
ReplaceInlineCodeInPlace(str, p, blocks, done) ==
    With(FirstAt(str, p, reInlineCodeAt), LAMBDA q :
        IF q = 0 THEN [out |-> done \o From(str, p), blocks |-> blocks]
        ELSE With(reInlineCodeAt(str, q), LAMBDA match :
             With(<<"<code>">> \o match.m1 \o <<"</code>">>, LAMBDA block :
             With(done \o Sub(str, p, q - 1) \o block, LAMBDA out :
                  ReplaceInlineCodeInPlace(str, match.end + 1, Append(blocks, block),
                                           out)))))

\* markdown.go:362-368: reInlineCode.ReplaceAllStringFunc with its closure, from
\* position p on, blocks being inlineCodeBlocks and done the text written so
\* far.  [out, blocks]
RECURSIVE ReplaceInlineCode(_, _, _, _)
ReplaceInlineCode(str, p, blocks, done) ==
    With(FirstAt(str, p, reInlineCodeAt), LAMBDA q :
        IF q = 0 THEN [out |-> done \o From(str, p), blocks |-> blocks]
        ELSE With(reInlineCodeAt(str, q), LAMBDA match :
             With(done \o Sub(str, p, q - 1) \o Placeholder(Len(blocks)), LAMBDA out :
             With(Append(blocks, <<"<code>">> \o match.m1 \o <<"</code>">>),
                  LAMBDA blocks2 :
                  ReplaceInlineCode(str, match.end + 1, blocks2, out)))))

\* regexp.ReplaceAllString(seg, open $1 close) for the emphasis expressions
RECURSIVE ReplaceDouble(_, _, _, _, _)
ReplaceDouble(seg, p, mark, open, close) ==
    With(FirstAt(seg, p, LAMBDA x, i : reDoubleAt(x, i, mark)), LAMBDA q :
        IF q = 0 THEN From(seg, p)
        ELSE With(reDoubleAt(seg, q, mark), LAMBDA match :
                 Sub(seg, p, q - 1) \o <<open>> \o match.m1 \o <<close>>
                 \o ReplaceDouble(seg, match.end + 1, mark, open, close)))

RECURSIVE ReplaceSingle(_, _, _, _, _)
ReplaceSingle(seg, p, mark, open, close) ==
    With(FirstAt(seg, p, LAMBDA x, i : reSingleAt(x, i, mark)), LAMBDA q :
        IF q = 0 THEN From(seg, p)
        ELSE With(reSingleAt(seg, q, mark), LAMBDA match :
                 Sub(seg, p, q - 1) \o <<open>> \o match.m1 \o <<close>>
                 \o ReplaceSingle(seg, match.end + 1, mark, open, close)))

\* markdown.go:370-376, the closure given to ApplyOutsideTags
Emphasis(seg) ==
    With(ReplaceDouble(seg, 1, "*", "<strong>", "</strong>"), LAMBDA b1 :
    With(ReplaceDouble(b1, 1, "_", "<strong>", "</strong>"), LAMBDA b2 :
    With(ReplaceSingle(b2, 1, "*", "<em>", "</em>"), LAMBDA i1 :
        ReplaceSingle(i1, 1, "_", "<em>", "</em>"))))

\* The elements that hold '<' (at their start) and '>' (at their end).
HasLt(e) ==
    e \in {"<", "<img ", "<a href=\"", "</a>", "<code>", "</code>",
           "<strong>", "</strong>", "<em>", "</em>"}
HasGt(e) ==
    e \in {">", "\" decoding=\"async\"/>", AttrsPlain, AttrsNewTab, "</a>",
           "<code>", "</code>", "<strong>", "</strong>", "<em>", "</em>"}

\* ApplyOutsideTags (markdown.go:290-310) with Emphasis for fn
RECURSIVE ApplyOutsideTags(_)
ApplyOutsideTags(str) ==
    IF str = <<>> THEN <<>>
    ELSE With({ i \in 1..Len(str) : HasLt(str[i]) }, LAMBDA lts :
            IF lts = {} THEN Emphasis(str)
            ELSE With(Min(lts), LAMBDA lt :
                 With({ i \in lt..Len(str) : HasGt(str[i]) /\ (i > lt \/ str[i] # "<") },
                      LAMBDA gts :
                      With(Sub(str, 1, lt - 1), LAMBDA seg : Emphasis(seg))
                      \o (IF gts = {} THEN From(str, lt)
                          ELSE Sub(str, lt, Min(gts))
                               \o With(From(str, Min(gts) + 1),
                                       LAMBDA t : ApplyOutsideTags(t))))))

\* strings.Replace(str, old, new, 1)
ReplaceFirst(str, old, new) ==
    LET i == IndexFrom(str, old, 1)
    IN IF i = 0 THEN str
       ELSE Sub(str, 1, i - 1) \o new \o From(str, i + Len(old))

\* markdown.go:378-380, from block i (0-based) on
RECURSIVE Restore(_, _, _)
Restore(str, blocks, i) ==
    IF i >= Len(blocks) THEN str
    ELSE With(ReplaceFirst(str, Placeholder(i), blocks[i + 1]),
              LAMBDA t : Restore(t, blocks, i + 1))

\* FormatInline(str, &ic): [out, ic]
FormatInline(str, ic) ==
    With(EscapeString(str), LAMBDA esc :
    With(ReplaceImg(esc, 1, ic, <<>>), LAMBDA img :
    With(ReplaceLink(img.out, 1), LAMBDA link :
    With(ReplaceInlineCode(link, 1, <<>>, <<>>), LAMBDA code :
    With(ApplyOutsideTags(code.out), LAMBDA emph :
        [out |-> Restore(emph, code.blocks, 0), ic |-> img.ic])))))

----------------------------------------------------------------------------
(* RenderMarkdown (markdown.go:40-263).  Its locals as one record, so that  *)
(* the flush closures and the branches of the loop body compose.            *)

St == [buf |-> buf, imageCount |-> imageCount, inList |-> inList,
       inOrderedList |-> inOrderedList, inPara |-> inPara, inQuote |-> inQuote,
       inCode |-> inCode, codeLang |-> codeLang, inTable |-> inTable,
       tableHeaderDone |-> tableHeaderDone]

\* markdown.go:41-50
St0 == [buf |-> <<>>, imageCount |-> 0, inList |-> FALSE, inOrderedList |-> FALSE,
        inPara |-> FALSE, inQuote |-> FALSE, inCode |-> FALSE, codeLang |-> FALSE,
        inTable |-> FALSE, tableHeaderDone |-> FALSE]

\* buf.WriteString
Write(st, str) == [st EXCEPT !.buf = @ \o str]

\* A plausible slip: the wrapper of a fence with a language is left open.
flushCodeNoWrapper(st) ==
    IF st.inCode
    THEN [Write(st, <<"</code>", "</pre>">>)
            EXCEPT !.codeLang = FALSE, !.inCode = FALSE, !.inPara = FALSE]
    ELSE st

\* markdown.go:52-62
flushCode(st) ==
    IF st.inCode
    THEN [Write(st, <<"</code>", "</pre>">> \o (IF st.codeLang THEN <<"</div>">> ELSE <<>>))
            EXCEPT !.codeLang = FALSE, !.inCode = FALSE, !.inPara = FALSE]
    ELSE st
\* markdown.go:63-68
flushPara(st) ==
    IF st.inPara THEN [Write(st, <<"</p>">>) EXCEPT !.inPara = FALSE] ELSE st
\* markdown.go:69-74
flushQuote(st) ==
    IF st.inQuote THEN [Write(st, <<"</blockquote>">>) EXCEPT !.inQuote = FALSE] ELSE st
\* markdown.go:75-80
flushList(st) ==
    IF st.inList THEN [Write(st, <<"</ul>">>) EXCEPT !.inList = FALSE] ELSE st
\* markdown.go:81-86
flushOrderedList(st) ==
    IF st.inOrderedList THEN [Write(st, <<"</ol>">>) EXCEPT !.inOrderedList = FALSE]
    ELSE st
\* markdown.go:87-96
flushTable(st) ==
    IF st.inTable
    THEN [Write(st, (IF st.tableHeaderDone THEN <<"</tbody>">> ELSE <<>>) \o <<"</table>">>)
            EXCEPT !.inTable = FALSE, !.tableHeaderDone = FALSE]
    ELSE st

\* buf.WriteString(open); buf.WriteString(FormatInline(text, &imageCount));
\* buf.WriteString(close)
WriteInline(st, open, text, close) ==
    With(st, LAMBDA st1 :
    With(text, LAMBDA t :
    With(FormatInline(t, st1.imageCount), LAMBDA f :
        [Write(st1, open \o f.out \o close) EXCEPT !.imageCount = f.ic])))

Fence == <<BT, BT, BT>>

\* markdown.go:100-121
FenceBranch(st, line) ==
    IF st.inCode THEN flushCode(st)
    ELSE LET st1 == flushQuote(flushOrderedList(flushList(flushPara(st))))
             lang == TrimSpace(From(line, 4))
             escapedLang == EscapeString(lang)
             st2 == IF lang # <<>>
                    THEN [Write(st1, <<"<div class=\"code-block-wrapper\">",
                                       "<span class=\"code-lang code-lang-">>
                                     \o escapedLang \o <<"\">">> \o escapedLang
                                     \o <<"</span>", "<pre class=\"code-block\">",
                                          "<code class=\"language-">>
                                     \o escapedLang \o <<"\">">>)
                            EXCEPT !.codeLang = TRUE]
                    ELSE Write(st1, <<"<pre class=\"code-block\">", "<code>">>)
         IN [st2 EXCEPT !.inCode = TRUE, !.inPara = TRUE]

\* A plausible slip: a line of code goes through the inline formatter.
CodeBranchFormatted(st, line) == WriteInline(st, <<>>, line, <<"\n">>)

\* markdown.go:123-127
CodeBranch(st, line) == Write(st, EscapeString(line) \o <<"\n">>)

\* A plausible slip: the blank line leaves the table open.
BlankBranchNoTable(st) == flushQuote(flushOrderedList(flushList(flushPara(st))))

\* markdown.go:129-136
BlankBranch(st) ==
    flushTable(flushQuote(flushOrderedList(flushList(flushPara(st)))))

FlushAll(st) == flushTable(flushQuote(flushOrderedList(flushList(flushPara(st)))))

\* markdown.go:139-145
RuleBranch(st) == Write(FlushAll(st), <<"<hr/>">>)

HOpen == <<"<h1>", "<h2>", "<h3>">>
HClose == <<"</h1>", "</h2>", "</h3>">>

\* markdown.go:146-172, the heading of level k
HeadingBranch(st, line, k) ==
    WriteInline(FlushAll(st), <<HOpen[k]>>, TrimSpace(From(line, k + 2)), <<HClose[k]>>)

\* parseTableCells (markdown.go:265-273)
parseTableCells(line) ==
    With(Split(Trim(TrimSpace(line), {"|"}), "|"), LAMBDA parts :
        [ i \in 1..Len(parts) |-> TrimSpace(parts[i]) ])

\* isTableSeparator (markdown.go:275-286)
isTableSeparator(line) ==
    With(Split(Trim(TrimSpace(line), {"|"}), "|"), LAMBDA parts :
        \A i \in 1..Len(parts) :
            \A j \in 1..Len(TrimSpace(parts[i])) : TrimSpace(parts[i])[j] \in {"-", ":"})

\* markdown.go:183-187 and 201-205, the loop over the cells from cell i on
RECURSIVE WriteCells(_, _, _, _, _)
WriteCells(st, cells, i, open, close) ==
    IF i > Len(cells) THEN st
    ELSE With(WriteInline(st, <<open>>, cells[i], <<close>>),
              LAMBDA st1 : WriteCells(st1, cells, i + 1, open, close))

\* A plausible slip: every row after the header opens the body.
TableBranchBodyPerRow(st, line) ==
    IF ~st.inTable
    THEN LET st1 == [Write(flushQuote(flushOrderedList(flushList(flushPara(st)))),
                           <<"<table>">>) EXCEPT !.inTable = TRUE]
             st2 == WriteCells(Write(st1, <<"<thead>", "<tr>">>),
                               parseTableCells(line), 1, "<th>", "</th>")
         IN Write(st2, <<"</tr>", "</thead>">>)
    ELSE LET st1 == [Write(st, <<"<tbody>">>) EXCEPT !.tableHeaderDone = TRUE]
         IN IF isTableSeparator(line) THEN st1
            ELSE Write(WriteCells(Write(st1, <<"<tr>">>), parseTableCells(line), 1,
                                  "<td>", "</td>"),
                       <<"</tr>">>)

\* markdown.go:173-207
TableBranch(st, line) ==
    IF ~st.inTable
    THEN LET st1 == [Write(flushQuote(flushOrderedList(flushList(flushPara(st)))),
                           <<"<table>">>) EXCEPT !.inTable = TRUE]
             st2 == WriteCells(Write(st1, <<"<thead>", "<tr>">>),
                               parseTableCells(line), 1, "<th>", "</th>")
         IN Write(st2, <<"</tr>", "</thead>">>)
    ELSE LET st1 == IF ~st.tableHeaderDone
                    THEN [Write(st, <<"<tbody>">>) EXCEPT !.tableHeaderDone = TRUE]
                    ELSE st
         IN IF isTableSeparator(line) THEN st1
            ELSE Write(WriteCells(Write(st1, <<"<tr>">>), parseTableCells(line), 1,
                                  "<td>", "</td>"),
                       <<"</tr>">>)

\* A plausible slip: every unordered item opens a list of its own.
ListBranchAlwaysOpens(st, line) ==
    WriteInline([Write(flushTable(flushQuote(flushOrderedList(flushPara(flushList(st))))),
                       <<"<ul>">>) EXCEPT !.inList = TRUE],
                <<"<li>">>, TrimSpace(From(line, 3)), <<"</li>">>)

\* markdown.go:208-219
ListBranch(st, line) ==
    LET st1 == IF ~st.inList
               THEN [Write(flushTable(flushQuote(flushOrderedList(flushPara(st)))),
                           <<"<ul>">>) EXCEPT !.inList = TRUE]
               ELSE st
    IN WriteInline(st1, <<"<li>">>, TrimSpace(From(line, 3)), <<"</li>">>)

\* markdown.go:220-232
OrderedListBranch(st, line) ==
    LET st1 == IF ~st.inOrderedList
               THEN [Write(flushTable(flushQuote(flushList(flushPara(st)))),
                           <<"<ol>">>) EXCEPT !.inOrderedList = TRUE]
               ELSE st
        content == From(line, reOrderedListLen(line) + 1)
    IN WriteInline(st1, <<"<li>">>, TrimSpace(content), <<"</li>">>)

\* markdown.go:233-242
QuoteBranch(st, line) ==
    LET st1 == IF ~st.inQuote
               THEN [Write(flushTable(flushOrderedList(flushList(flushPara(st)))),
                           <<"<blockquote>">>) EXCEPT !.inQuote = TRUE]
               ELSE st
    IN WriteInline(st1, <<>>, TrimSpace(From(line, 3)), <<>>)

\* A plausible slip: a later line of a paragraph is not preceded by a space.
ParaBranchNoSpace(st, line) ==
    LET st1 == IF ~st.inPara
               THEN [Write(flushTable(flushQuote(flushOrderedList(flushList(st)))),
                           <<"<p>">>) EXCEPT !.inPara = TRUE]
               ELSE st
    IN WriteInline(st1, <<>>, TrimSpace(line), <<"\n">>)

\* markdown.go:243-254
ParaBranch(st, line) ==
    LET st1 == IF ~st.inPara
               THEN [Write(flushTable(flushQuote(flushOrderedList(flushList(st)))),
                           <<"<p>">>) EXCEPT !.inPara = TRUE]
               ELSE Write(st, <<" ">>)
    IN WriteInline(st1, <<>>, TrimSpace(line), <<"\n">>)

\* markdown.go:257-262
FinalFlush(st) ==
    flushCode(flushTable(flushQuote(flushOrderedList(flushList(flushPara(st))))))

\* markdown.go:99
LineOf(rawline) == TrimRight(rawline, {"\r"})

\* A plausible slip: a heading of the third level is not known, and is a
\* paragraph.
BranchWithoutH3(line, code) ==
    IF HasPrefix(line, Fence) THEN "fence"
    ELSE IF code THEN "code"
    ELSE IF TrimSpace(line) = <<>> THEN "blank"
    ELSE IF HasPrefix(line, <<"-", "-", "-">>) THEN "rule"
    ELSE IF HasPrefix(line, <<"#", " ">>) THEN "h1"
    ELSE IF HasPrefix(line, <<"#", "#", " ">>) THEN "h2"
    ELSE IF HasPrefix(line, <<"|">>) THEN "table"
    ELSE IF HasPrefix(line, <<"-", " ">>) THEN "list"
    ELSE IF reOrderedListLen(line) > 0 THEN "ordered"
    ELSE IF HasPrefix(line, <<">", " ">>) THEN "quote"
    ELSE "para"

\* A plausible slip: the fence mark is looked for in the line trimmed of the
\* white space around it.
BranchTrimmedFence(line, code) ==
    IF HasPrefix(TrimSpace(line), Fence) THEN "fence"
    ELSE IF code THEN "code"
    ELSE IF TrimSpace(line) = <<>> THEN "blank"
    ELSE IF HasPrefix(line, <<"-", "-", "-">>) THEN "rule"
    ELSE IF HasPrefix(line, <<"#", " ">>) THEN "h1"
    ELSE IF HasPrefix(line, <<"#", "#", " ">>) THEN "h2"
    ELSE IF HasPrefix(line, <<"#", "#", "#", " ">>) THEN "h3"
    ELSE IF HasPrefix(line, <<"|">>) THEN "table"
    ELSE IF HasPrefix(line, <<"-", " ">>) THEN "list"
    ELSE IF reOrderedListLen(line) > 0 THEN "ordered"
    ELSE IF HasPrefix(line, <<">", " ">>) THEN "quote"
    ELSE "para"

\* The branch of the loop body (markdown.go:100-255) that handles a line when
\* inCode has the value code: the first whose condition holds.
Branch(line, code) ==
    IF HasPrefix(line, Fence) THEN "fence"
    ELSE IF code THEN "code"
    ELSE IF TrimSpace(line) = <<>> THEN "blank"
    ELSE IF HasPrefix(line, <<"-", "-", "-">>) THEN "rule"
    ELSE IF HasPrefix(line, <<"#", " ">>) THEN "h1"
    ELSE IF HasPrefix(line, <<"#", "#", " ">>) THEN "h2"
    ELSE IF HasPrefix(line, <<"#", "#", "#", " ">>) THEN "h3"
    ELSE IF HasPrefix(line, <<"|">>) THEN "table"
    ELSE IF HasPrefix(line, <<"-", " ">>) THEN "list"
    ELSE IF reOrderedListLen(line) > 0 THEN "ordered"
    ELSE IF HasPrefix(line, <<">", " ">>) THEN "quote"
    ELSE "para"

----------------------------------------------------------------------------
(* Bounds and inputs *)

MaxLines == 3
MaxFrags == 2
MaxParts == 2

\* The lines a document of the model is made of.
LinePool ==
    { <<>>,
      <<BT, BT, BT>>,
      <<BT, BT, BT, "c", "<">>,
      <<"-", "-", "-">>,
      <<"#", " ", "<">>,
      <<"|", "a", "|", "'", "|">>,
      <<"|", "-", "|", "-", "|">>,
      <<"-", " ", "\"">>,
      <<"1", ".", " ", ">">>,
      <<">", " ", "&">>,
      <<" ">>,
      <<"a", "<", "\r">>,
      <<"!", "[", "i", "]", "(", "/", "u", ")", "{", "}">>,
      <<" ", BT, BT, BT>>,
      <<BT, BT, BT, " ", "g", "o", " ", "\r">> }

\* The lines of the documents that show the block structure: one line or more
\* for each branch of the loop, with runs of list items, paragraph lines and
\* table rows, and images in a paragraph and in a table cell.
BlockPool ==
    { <<>>,
      <<BT, BT, BT>>,
      <<"-", "-", "-">>,
      <<"#", " ", "a">>,
      <<"#", "#", " ", "*", "a", "*">>,
      <<"#", "#", "#", " ", "a">>,
      <<"|", "!", "[", "a", "]", "(", "/", "i", ")", "{", "}", "|", "b", "|">>,
      <<"|", "-", "|", ":", "-", "|">>,
      <<"-", " ", "a">>,
      <<"1", ".", " ", "a">>,
      <<"5", ".", " ", "b">>,
      <<">", " ", "a">>,
      <<"*", "*", "h", "*", "*", " ", "w">>,
      <<"!", "[", "a", "]", "(", "j", "s", ":", "x", ")", "{", "}",
        "!", "[", "b", "]", "(", "/", "i", ")", "{", "}">> }

\* The pieces an argument of FormatInline is made of.
FragPool ==
    { <<"x">>,
      <<"<">>,
      <<"*">>,
      <<"*", "*">>,
      <<"_">>,
      <<BT>>,
      <<BT, "*", "b", "*", BT>>,
      <<"[", "t", "]", "(", "j", "a", "v", "a", "s", "c", "r", "i", "p", "t", ":",
        "a", "l", "e", "r", "t", "(", "1", ")", ")">>,
      <<"[", "t", "]", "(", "j", "s", ":", "x", ")", "^">>,
      <<"[", "t", "]", "(", "/", "u", "_", "a", "_", ")">>,
      <<"[", "t", "]", "(", "/", "u", BT, "_", "a", "_", ")">>,
      <<"*", "*", "a", "*", "b", "*", "c", "*", "*">>,
      <<"_", "_", "a", "_", "b", "_", "c", "_", "_">>,
      <<"*", "*", "[", "t", "]", "(", "/", "u", ")", "*", "*">>,
      <<"!", "[", "a", "]", "(", "j", "s", ":", "x", ")", "{", "s", "}">>,
      <<"!", "[", "a", "]", "(", "/", "i", ")", "{", "s", "|", "1", "|", "2", "}">>,
      <<NUL, "I", "C", "0", NUL>>,
      <<BT, "[", "t", "]", "(", "/", "u", ")", BT>>,
      <<"!", "[", "[", "a", "]", "(", "/", "i", ")", "{", "s", "}", "]", "(", "/", "u", ")">>,
      <<"*", "*", "*", "x", "*", "*", "*">>,
      <<"*", "a", " ", "*", "*", "b", "*", " ", "c", "*", "*">> }

\* The pieces an argument of SafeURL is made of.
UrlPool ==
    { <<"h", "t", "t", "p", ":">>,
      <<"H", "T", "T", "P", ":">>,
      <<"h", "t", "t", "p", "s", ":">>,
      <<"m", "a", "i", "l", "t", "o", ":">>,
      <<"t", "e", "l", ":">>,
      <<"j", "s", ":">>,
      <<"/", "/", "a">>,
      <<"/">>,
      <<"#">>,
      <<" ">>,
      <<"x">>,
      <<":">>,
      <<"&", "a", "m", "p", ";">>,
      <<"&", "#", "3", "9", ";">>,
      <<"\t">>,
      <<"&">> }

\* The texts made of at most n pieces of pool.
Texts(pool, n) == { Cat(fs) : fs \in UNION { [1..k -> pool] : k \in 0..n } }

----------------------------------------------------------------------------
(* The renderer: one action for each branch of the loop body, taking the    *)
(* next line of the document, and one for the end of the document.          *)

Set(st) ==
    /\ buf' = st.buf
    /\ imageCount' = st.imageCount
    /\ inList' = st.inList
    /\ inOrderedList' = st.inOrderedList
    /\ inPara' = st.inPara
    /\ inQuote' = st.inQuote
    /\ inCode' = st.inCode
    /\ codeLang' = st.codeLang
    /\ inTable' = st.inTable
    /\ tableHeaderDone' = st.tableHeaderDone

IdleInline ==
    /\ s = <<>> /\ escaped = <<>> /\ inlineCodeBlocks = <<>> /\ fcount = 0
    /\ fpc = "idle"
IdleURL == raw = <<>> /\ ret = <<>> /\ upc = "idle"
IdleCalls == calls = <<>> /\ counters = <<>>
IdleOutside == targ = <<>> /\ ts = <<>> /\ tout = <<>> /\ tpc = "idle"
IdleLimiter ==
    /\ now = 0 /\ attempts = <<>> /\ mattempts = <<>> /\ lproc = <<>>
    /\ granted = <<>>
IdleStore == table = <<>> /\ saved = <<>> /\ sres = <<>>
IdleCache ==
    /\ cache = <<>> /\ mu = <<>> /\ readers = <<>> /\ writers = <<>>
    /\ writes = 0 /\ completed = 0
IdleOthers == IdleCalls /\ IdleOutside /\ IdleLimiter /\ IdleStore /\ IdleCache
IdleRender ==
    /\ linePool = {} /\ lines = <<>> /\ rpc = "idle" /\ buf = <<>> /\ imageCount = 0
    /\ inList = FALSE /\ inOrderedList = FALSE /\ inPara = FALSE /\ inQuote = FALSE
    /\ inCode = FALSE /\ codeLang = FALSE /\ inTable = FALSE
    /\ tableHeaderDone = FALSE

Init ==
    /\ linePool = LinePool
    /\ lines = <<>> /\ rpc = "loop" /\ buf = St0.buf /\ imageCount = St0.imageCount
    /\ inList = St0.inList /\ inOrderedList = St0.inOrderedList
    /\ inPara = St0.inPara /\ inQuote = St0.inQuote /\ inCode = St0.inCode
    /\ codeLang = St0.codeLang /\ inTable = St0.inTable
    /\ tableHeaderDone = St0.tableHeaderDone
    /\ IdleInline /\ IdleURL /\ IdleOthers

\* The loop takes rawline, the next line of the document, into branch kind.
Takes(rawline, kind) ==
    /\ rpc = "loop"
    /\ Len(lines) < MaxLines
    /\ Branch(LineOf(rawline), inCode) = kind
    /\ lines' = Append(lines, rawline)
    /\ rpc' = rpc
    /\ linePool' = linePool
    /\ UNCHANGED <<fvars, uvars, ovars>>

FenceLine ==
    \E rawline \in linePool :
        Takes(rawline, "fence") /\ Set(FenceBranch(St, LineOf(rawline)))
CodeLine ==
    \E rawline \in linePool :
        Takes(rawline, "code") /\ Set(CodeBranch(St, LineOf(rawline)))
BlankLine ==
    \E rawline \in linePool : Takes(rawline, "blank") /\ Set(BlankBranch(St))
RuleLine ==
    \E rawline \in linePool : Takes(rawline, "rule") /\ Set(RuleBranch(St))
HeadingLine ==
    \E rawline \in linePool, k \in 1..3 :
        /\ Takes(rawline, <<"h1", "h2", "h3">>[k])
        /\ Set(HeadingBranch(St, LineOf(rawline), k))
TableLine ==
    \E rawline \in linePool :
        Takes(rawline, "table") /\ Set(TableBranch(St, LineOf(rawline)))
ListLine ==
    \E rawline \in linePool :
        Takes(rawline, "list") /\ Set(ListBranch(St, LineOf(rawline)))
OrderedListLine ==
    \E rawline \in linePool :
        Takes(rawline, "ordered") /\ Set(OrderedListBranch(St, LineOf(rawline)))
QuoteLine ==
    \E rawline \in linePool :
        Takes(rawline, "quote") /\ Set(QuoteBranch(St, LineOf(rawline)))
ParaLine ==
    \E rawline \in linePool :
        Takes(rawline, "para") /\ Set(ParaBranch(St, LineOf(rawline)))

\* The document ends (strings.Split gives at least one line): markdown.go:257-262.
EndOfDocument ==
    /\ rpc = "loop"
    /\ Len(lines) >= 1
    /\ Set(FinalFlush(St))
    /\ rpc' = "done"
    /\ UNCHANGED <<linePool, lines, fvars, uvars, ovars>>

Next ==
    \/ FenceLine \/ CodeLine \/ BlankLine \/ RuleLine \/ HeadingLine \/ TableLine
    \/ ListLine \/ OrderedListLine \/ QuoteLine \/ ParaLine \/ EndOfDocument

Spec == Init /\ [][Next]_vars

\* The same renderer over the documents made of the lines of BlockPool.
InitBlocks ==
    /\ linePool = BlockPool
    /\ lines = <<>> /\ rpc = "loop" /\ buf = St0.buf /\ imageCount = St0.imageCount
    /\ inList = St0.inList /\ inOrderedList = St0.inOrderedList
    /\ inPara = St0.inPara /\ inQuote = St0.inQuote /\ inCode = St0.inCode
    /\ codeLang = St0.codeLang /\ inTable = St0.inTable
    /\ tableHeaderDone = St0.tableHeaderDone
    /\ IdleInline /\ IdleURL /\ IdleOthers

SpecBlocks == InitBlocks /\ [][Next]_vars

----------------------------------------------------------------------------
(* One call of FormatInline, a statement at a time *)

InitInline ==
    /\ s \in Texts(FragPool, MaxFrags)
    /\ escaped = <<>> /\ inlineCodeBlocks = <<>> /\ fcount = 0
    /\ fpc = "escape"
    /\ IdleRender /\ IdleURL /\ IdleOthers

\* markdown.go:314
EscapeStep ==
    /\ fpc = "escape"
    /\ escaped' = EscapeString(s)
    /\ fpc' = "img"
    /\ UNCHANGED <<s, inlineCodeBlocks, fcount, rvars, uvars, ovars>>
\* markdown.go:316-344
ImgStep ==
    /\ fpc = "img"
    /\ escaped' = ReplaceImg(escaped, 1, fcount, <<>>).out
    /\ fcount' = ReplaceImg(escaped, 1, fcount, <<>>).ic
    /\ fpc' = "link"
    /\ UNCHANGED <<s, inlineCodeBlocks, rvars, uvars, ovars>>
\* markdown.go:345-359
LinkStep ==
    /\ fpc = "link"
    /\ escaped' = ReplaceLink(escaped, 1)
    /\ fpc' = "code"
    /\ UNCHANGED <<s, inlineCodeBlocks, fcount, rvars, uvars, ovars>>
\* markdown.go:362-368
InlineCodeStep ==
    /\ fpc = "code"
    /\ escaped' = ReplaceInlineCode(escaped, 1, <<>>, <<>>).out
    /\ inlineCodeBlocks' = ReplaceInlineCode(escaped, 1, <<>>, <<>>).blocks
    /\ fpc' = "emphasis"
    /\ UNCHANGED <<s, fcount, rvars, uvars, ovars>>
\* markdown.go:370-376
EmphasisStep ==
    /\ fpc = "emphasis"
    /\ escaped' = ApplyOutsideTags(escaped)
    /\ fpc' = "restore"
    /\ UNCHANGED <<s, inlineCodeBlocks, fcount, rvars, uvars, ovars>>
\* markdown.go:378-381
RestoreStep ==
    /\ fpc = "restore"
    /\ escaped' = Restore(escaped, inlineCodeBlocks, 0)
    /\ fpc' = "return"
    /\ UNCHANGED <<s, inlineCodeBlocks, fcount, rvars, uvars, ovars>>

NextInline ==
    \/ EscapeStep \/ ImgStep \/ LinkStep \/ InlineCodeStep \/ EmphasisStep
    \/ RestoreStep

SpecInline == InitInline /\ [][NextInline]_vars

----------------------------------------------------------------------------
(* One call of SafeURL *)

InitURL ==
    /\ raw \in Texts(UrlPool, MaxParts)
    /\ ret = <<>> /\ upc = "call"
    /\ IdleRender /\ IdleInline /\ IdleOthers

SafeURLCall ==
    /\ upc = "call"
    /\ ret' = SafeURL(raw)
    /\ upc' = "return"
    /\ UNCHANGED <<raw, rvars, fvars, ovars>>

NextURL == SafeURLCall

SpecURL == InitURL /\ [][NextURL]_vars

----------------------------------------------------------------------------
(* Properties of the renderer's output *)

Contains(str, sub) == IndexFrom(str, sub, 1) # 0
EndsWith(str, suffix) ==
    Len(str) >= Len(suffix) /\ From(str, Len(str) - Len(suffix) + 1) = suffix
Count(str, e) == Cardinality({ i \in 1..Len(str) : str[i] = e })

\* What html.EscapeString makes of a special character, after the '&'.
EntityTails ==
    { <<"a", "m", "p", ";">>, <<"l", "t", ";">>, <<"g", "t", ";">>,
      <<"#", "3", "9", ";">>, <<"#", "3", "4", ";">> }

\* No character of str is a bare '<', '>', quote or apostrophe, and every '&'
\* starts an entity.
NoRawSpecial(str) ==
    \A i \in 1..Len(str) :
        /\ str[i] \notin {"<", ">", "\"", "'"}
        /\ str[i] = "&" => \E e \in EntityTails : HasPrefix(From(str, i + 1), e)

HasSpecial(str) == \E i \in 1..Len(str) : str[i] \in {"<", ">", "\"", "'", "&"}

\* C1: whatever the document, no '<', '>', '&', quote or apostrophe of the input
\* reaches the output of RenderMarkdown unescaped; the only elements of the
\* output that hold '<' are the literals of markup the renderer writes.  On
\* every path: paragraph, heading, list item, quotation, table cell, line of
\* code, language of a fence.
C1_NoInputSpecialUnescaped == NoRawSpecial(buf)

\* A finished document that opens a fence whose language holds '<' and goes on
\* with a line of code that holds a special character.
C1_EscapedInFenceAndCode ==
    /\ rpc = "done"
    /\ Len(lines) >= 2
    /\ lines[1] = <<BT, BT, BT, "c", "<">>
    /\ HasSpecial(lines[2])
    /\ Contains(buf, <<"<code class=\"language-", "c", "&", "l", "t", ";", "\">">>)
    /\ \E e \in EntityTails : Contains(buf, <<"&">> \o e \o <<"\n">>)

----------------------------------------------------------------------------
(* A link or an image that is the whole argument of FormatInline: its text  *)
(* and its URL.  The URL runs to the parenthesis that closes the construct, *)
(* so it may hold a balanced pair of its own.                               *)

ConstructFirst(str) == IF Len(str) >= 1 /\ str[1] = "!" THEN 2 ELSE 1

\* The position of the parenthesis that closes the URL, 0 when there is none.
ConstructEnd(str) ==
    LET n == Len(str)
        braces == { i \in 1..n : str[i] = "{" }
    IN IF ConstructFirst(str) = 2 THEN (IF braces = {} THEN 0 ELSE Min(braces) - 1)
       ELSE IF n >= 1 /\ str[n] = "^" THEN n - 1 ELSE n

ConstructParts(str) ==
    LET q == IndexFrom(str, <<"]", "(">>, 1)
    IN [text |-> Sub(str, ConstructFirst(str) + 1, q - 1),
        url |-> Sub(str, q + 2, ConstructEnd(str) - 1)]

IsConstruct(str) ==
    LET first == ConstructFirst(str)
        q == IndexFrom(str, <<"]", "(">>, 1)
        last == ConstructEnd(str)
        parts == ConstructParts(str)
    IN /\ Len(str) >= first /\ str[first] = "["
       /\ q > first /\ last >= q + 2 /\ str[last] = ")"
       /\ first = 2 => /\ str[Len(str)] = "}"
                       /\ Count(str, "{") = 1 /\ Count(str, "}") = 1
                       /\ Count(str, "|") = 0
       /\ \A i \in 1..Len(parts.text) : parts.text[i] \notin {"[", "]", "*", "_", BT, NUL}
       /\ \A i \in 1..Len(parts.url) : parts.url[i] \notin {"[", "]", "{", "}"}
       /\ Count(parts.url, "(") = Count(parts.url, ")")

\* C2: a link [text](url) or an image ![alt](url){style} whose URL SafeURL
\* rejects gets no href and no src, and becomes exactly its text: nothing else
\* of the construct is left in what FormatInline returns.
C2_RejectedConstructBecomesItsText ==
    (/\ fpc = "return" /\ IsConstruct(s)
     /\ SafeURL(EscapeString(ConstructParts(s).url)) = <<>>)
    => /\ escaped = EscapeString(ConstructParts(s).text)
       /\ ~Contains(escaped, <<"<a href=\"">>) /\ ~Contains(escaped, <<"<img ">>)

\* FormatInline has returned for a link whose URL is rejected.
C2_RejectedLinkReturned ==
    /\ fpc = "return" /\ IsConstruct(s) /\ s[1] = "["
    /\ SafeURL(EscapeString(ConstructParts(s).url)) = <<>>
    /\ ~Contains(escaped, <<"<a href=\"">>)

----------------------------------------------------------------------------
\* The scheme of val as it is written: the text before its first ':'.
SchemeText(val) ==
    LET i == IndexFrom(val, <<":">>, 1)
    IN IF i = 0 THEN <<>> ELSE Sub(val, 1, i - 1)

\* val is not empty and starts with '/' or '#', or parses as a URL and its
\* scheme is, whatever its case, one of http, https, mailto, tel.
Acceptable(val) ==
    /\ val # <<>>
    /\ \/ HasPrefix(val, <<"/">>)
       \/ HasPrefix(val, <<"#">>)
       \/ ~ParseURL(val).err /\ ToLower(SchemeText(val)) \in AllowedSchemes

\* C3: SafeURL(raw) is not empty exactly when raw, unescaped and trimmed, is
\* acceptable: not empty, and starting with '/' or '#' or a URL that parses
\* and whose scheme is http, https, mailto or tel in any case; and a result
\* that is not empty is that value, escaped.
C3_SafeURLAcceptsExactly ==
    upc = "return" =>
        LET val == TrimSpace(UnescapeString(raw))
        IN /\ ret # <<>> <=> Acceptable(val)
           /\ ret # <<>> => ret = EscapeString(val)

\* SafeURL has accepted a URL whose scheme is in capitals, after trimming it.
C3_UpperCaseSchemeAccepted ==
    /\ upc = "return"
    /\ raw = <<" ", "H", "T", "T", "P", ":">>
    /\ ret = <<"H", "T", "T", "P", ":">>

----------------------------------------------------------------------------
EmphasisTags == {"<strong>", "</strong>", "<em>", "</em>"}

\* Element i of str lies in a code element: after a "<code>" that no "</code>"
\* has closed.
InCodeElement(str, i) ==
    \E j \in 1..(i - 1) : str[j] = "<code>" /\ \A k \in j..(i - 1) : str[k] # "</code>"

\* C4: whatever the argument of FormatInline, the emphasis substitutions leave
\* what is between two backquotes alone: no <strong> and no <em> is written
\* inside a code element, and each span (that holds no NUL byte, of which the
\* placeholders are made) is in the result as it was, its '*' and '_'
\* included, between <code> and </code>.
C4_CodeSpanNotEmphasised ==
    fpc = "return" =>
        /\ \A i \in 1..Len(escaped) :
              escaped[i] \in EmphasisTags => ~InCodeElement(escaped, i)
        /\ \A k \in 1..Len(inlineCodeBlocks) :
              Count(inlineCodeBlocks[k], NUL) = 0
                  => Contains(escaped, inlineCodeBlocks[k])

\* FormatInline has returned a code element that holds emphasis marks.
C4_MarksInsideCodeReturned ==
    /\ fpc = "return"
    /\ Contains(s, <<BT, "*", "b", "*", BT>>)
    /\ Contains(escaped, <<"<code>", "*", "b", "*", "</code>">>)

----------------------------------------------------------------------------
(* The block-level markup of the output *)

WrapperOpen == "<div class=\"code-block-wrapper\">"
PreOpen == "<pre class=\"code-block\">"

\* The opening and the closing tag of each block element.
BlockPairs ==
    { <<"<p>", "</p>">>, <<"<ul>", "</ul>">>, <<"<ol>", "</ol>">>,
      <<"<blockquote>", "</blockquote>">>, <<"<table>", "</table>">>,
      <<PreOpen, "</pre>">>, <<WrapperOpen, "</div>">>,
      <<"<h1>", "</h1>">>, <<"<h2>", "</h2>">>, <<"<h3>", "</h3>">> }
BlockOpen == { pr[1] : pr \in BlockPairs }
BlockClose == { pr[2] : pr \in BlockPairs }
CloserOf(open) == (CHOOSE pr \in BlockPairs : pr[1] = open)[2]

\* The last line the loop has taken.
LastLine(ls) == LineOf(ls[Len(ls)])

\* The loop takes a line in this step.
TakesLine == rpc = "loop" /\ rpc' = "loop" /\ Len(lines') = Len(lines) + 1

\* C5: when the document ends with a fence still open, the final flush closes
\* the code block: the output ends with </code></pre>, and </div> after them
\* when the fence had a language; and it writes no closing tag of a context
\* that was never opened, so that the output has no more closing tags of a
\* block element than opening ones.
C5_FinalFlushClosesOpenFence ==
    [][ (rpc = "loop" /\ rpc' = "done" /\ inCode) =>
          /\ EndsWith(buf', <<"</code>", "</pre>">>
                            \o (IF codeLang THEN <<"</div>">> ELSE <<>>))
          /\ \A pr \in BlockPairs : Count(buf', pr[2]) <= Count(buf', pr[1]) ]_vars

\* The block tags of str from element i on are balanced and nested, stack
\* being the elements open before i, the innermost first: a closing tag closes
\* the innermost open element, an element opens inside no other (but the <pre>
\* of a code block inside its wrapper), and none is open at the end.
RECURSIVE WellNested(_, _, _)
WellNested(str, i, stack) ==
    IF i > Len(str) THEN stack = <<>>
    ELSE IF str[i] \in BlockOpen
    THEN /\ stack = <<>> \/ (str[i] = PreOpen /\ stack = <<WrapperOpen>>)
         /\ WellNested(str, i + 1, <<str[i]>> \o stack)
    ELSE IF str[i] \in BlockClose
    THEN /\ stack # <<>>
         /\ CloserOf(Head(stack)) = str[i]
         /\ WellNested(str, i + 1, Tail(stack))
    ELSE WellNested(str, i + 1, stack)

\* C6: whatever the document, the block-level tags of the output of
\* RenderMarkdown are balanced and properly nested: each closing tag closes
\* the block opened last, no block opens inside another, none is left open.
C6_BlockTagsBalanced == rpc = "done" => WellNested(buf, 1, <<>>)

\* C7: at every point of a render at most one of the contexts paragraph,
\* unordered list, ordered list, quotation, table and code block is open.
C7_AtMostOneContextOpen ==
    Cardinality({ k \in 1..6 :
        <<inPara, inList, inOrderedList, inQuote, inTable, inCode>>[k] }) <= 1

\* C8: a line that is empty once trimmed, taken while no code block is open,
\* leaves none of paragraph, unordered list, ordered list, quotation and table
\* open, and adds to the output the closing tags of those that were open and
\* nothing else.
C8_BlankLineClosesEveryContext ==
    [][ (TakesLine /\ ~inCode /\ TrimSpace(LastLine(lines')) = <<>>) =>
          /\ ~inPara' /\ ~inList' /\ ~inOrderedList' /\ ~inQuote' /\ ~inTable'
          /\ buf' = buf \o (IF inPara THEN <<"</p>">> ELSE <<>>)
                        \o (IF inList THEN <<"</ul>">> ELSE <<>>)
                        \o (IF inOrderedList THEN <<"</ol>">> ELSE <<>>)
                        \o (IF inQuote THEN <<"</blockquote>">> ELSE <<>>)
                        \o (IF inTable /\ tableHeaderDone THEN <<"</tbody>">> ELSE <<>>)
                        \o (IF inTable THEN <<"</table>">> ELSE <<>>) ]_vars

\* A line of blanks has closed a table that had its header only.
C8_BlankLineClosedTable ==
    /\ rpc = "loop" /\ Len(lines) = 2
    /\ lines[1] = <<"|", "a", "|", "'", "|">> /\ lines[2] = <<" ">>
    /\ ~inTable
    /\ EndsWith(buf, <<"</tr>", "</thead>", "</table>">>)

\* C9: while a fence is open, a line that does not start with the fence mark
\* is written as its escaped text and one newline, without inline formatting,
\* and changes none of the contexts: blank lines, headings, list items,
\* quotations, table rows and rules are code there.
C9_CodeLineIsLiteral ==
    [][ (TakesLine /\ inCode /\ ~HasPrefix(LastLine(lines'), Fence)) =>
          /\ buf' = buf \o EscapeString(LastLine(lines')) \o <<"\n">>
          /\ UNCHANGED <<imageCount, inList, inOrderedList, inPara, inQuote, inCode,
                         codeLang, inTable, tableHeaderDone>> ]_vars

\* Inside a fence, a line that would be an image has been written as text.
C9_ImageLineWrittenAsCode ==
    /\ rpc = "loop" /\ inCode /\ Len(lines) = 2
    /\ lines[2] = <<"!", "[", "i", "]", "(", "/", "u", ")", "{", "}">>
    /\ EndsWith(buf, <<"<code>">> \o lines[2] \o <<"\n">>)
    /\ imageCount = 0

\* What the opening of a fence with the language lang writes.
FenceOpening(lang) ==
    IF lang # <<>>
    THEN <<WrapperOpen, "<span class=\"code-lang code-lang-">>
         \o EscapeString(lang) \o <<"\">">> \o EscapeString(lang)
         \o <<"</span>", PreOpen, "<code class=\"language-">>
         \o EscapeString(lang) \o <<"\">">>
    ELSE <<PreOpen, "<code>">>

\* C10: a fence that opens with a language writes the wrapper <div>, the badge
\* and <code class="language-X">, and one without writes none of them; the
\* wrapper is closed by one </div> for each wrapper opened, at the close of the
\* same code block; and codeLang is never set while no code block is open.
C10_WrapperOpenedAndClosedWithItsFence ==
    /\ [](/\ codeLang => inCode
          /\ Count(buf, WrapperOpen)
               = Count(buf, "</div>") + (IF codeLang THEN 1 ELSE 0)
          /\ \A i \in 1..Len(buf) :
                buf[i] = "</div>" => i > 2 /\ buf[i - 1] = "</pre>" /\ buf[i - 2] = "</code>")
    /\ [][ (TakesLine /\ ~inCode /\ HasPrefix(LastLine(lines'), Fence)) =>
             LET lang == TrimSpace(From(LastLine(lines'), 4))
             IN /\ EndsWith(buf', FenceOpening(lang))
                /\ codeLang' = (lang # <<>>)
                /\ lang = <<>> =>
                     \A i \in (Len(buf) + 1)..Len(buf') :
                        buf'[i] \notin {WrapperOpen, "<span class=\"code-lang code-lang-",
                                        "</span>", "<code class=\"language-"} ]_vars

\* A fence with a language has been opened and closed, and a fence without one
\* opened after it.
C10_WrapperClosedBeforePlainFence ==
    /\ rpc = "loop" /\ Len(lines) = 3 /\ inCode /\ ~codeLang
    /\ lines[1] = <<BT, BT, BT, "c", "<">> /\ lines[3] = <<BT, BT, BT>>
    /\ Count(buf, WrapperOpen) = 1 /\ Count(buf, "</div>") = 1
    /\ EndsWith(buf, <<"</code>", "</pre>", "</div>", PreOpen, "<code>">>)

----------------------------------------------------------------------------
(* The branch that handles a line *)

\* The closing tags of the contexts open among paragraph, unordered list,
\* ordered list, quotation and table.
OpenClosers ==
    (IF inPara THEN <<"</p>">> ELSE <<>>)
    \o (IF inList THEN <<"</ul>">> ELSE <<>>)
    \o (IF inOrderedList THEN <<"</ol>">> ELSE <<>>)
    \o (IF inQuote THEN <<"</blockquote>">> ELSE <<>>)
    \o (IF inTable /\ tableHeaderDone THEN <<"</tbody>">> ELSE <<>>)
    \o (IF inTable THEN <<"</table>">> ELSE <<>>)

\* The line starts with digits, a '.' and white space.
IsOrderedItem(line) ==
    \E k \in 1..(Len(line) - 2) :
        /\ \A i \in 1..k : line[i] \in Digit
        /\ line[k + 1] = "." /\ line[k + 2] \in Space

\* The kind of a line by the first prefix that matches, in the order rule,
\* heading, table row, unordered item, ordered item, quotation, paragraph.
KindOf(line) ==
    CASE HasPrefix(line, <<"-", "-", "-">>) -> "rule"
      [] HasPrefix(line, <<"#", " ">>) -> "h1"
      [] HasPrefix(line, <<"#", "#", " ">>) -> "h2"
      [] HasPrefix(line, <<"#", "#", "#", " ">>) -> "h3"
      [] HasPrefix(line, <<"|">>) -> "table"
      [] HasPrefix(line, <<"-", " ">>) -> "list"
      [] IsOrderedItem(line) -> "ordered"
      [] HasPrefix(line, <<">", " ">>) -> "quote"
      [] OTHER -> "para"

\* The contexts open after the step, in the order paragraph, unordered list,
\* ordered list, quotation, table.
FlagsAfter == <<inPara', inList', inOrderedList', inQuote', inTable'>>

\* The step has written the heading of level k made of line, and nothing else
\* but the closing tags of the contexts that were open.
HeadingWritten(line, k) ==
    /\ buf' = buf \o OpenClosers \o <<HOpen[k]>>
                  \o FormatInline(TrimSpace(From(line, k + 2)), imageCount).out
                  \o <<HClose[k]>>
    /\ FlagsAfter = <<FALSE, FALSE, FALSE, FALSE, FALSE>>

\* C11: a line that is not blank (and is not a fence), taken outside a code
\* block, is handled by one branch, the first that matches in the order rule,
\* heading, table row, unordered item, ordered item, quotation, paragraph: the
\* step leaves that context and no other open.  A line of one, two or three
\* '#' and a space is written as <hk>, its formatted text and </hk>, after
\* the closing tags of the open contexts, with no paragraph around it.
C11_LineHandledByFirstMatchingBranch ==
    [][ (/\ TakesLine /\ ~inCode
         /\ TrimSpace(LastLine(lines')) # <<>>
         /\ ~HasPrefix(LastLine(lines'), Fence)) =>
          LET line == LastLine(lines')
              kind == KindOf(line)
          IN /\ kind = "rule" =>
                   /\ buf' = buf \o OpenClosers \o <<"<hr/>">>
                   /\ FlagsAfter = <<FALSE, FALSE, FALSE, FALSE, FALSE>>
             /\ kind = "h1" => HeadingWritten(line, 1)
             /\ kind = "h2" => HeadingWritten(line, 2)
             /\ kind = "h3" => HeadingWritten(line, 3)
             /\ kind = "table" =>
                   /\ FlagsAfter = <<FALSE, FALSE, FALSE, FALSE, TRUE>>
                   /\ buf'[Len(buf')] \in {"</thead>", "<tbody>", "</tr>"}
             /\ kind = "list" =>
                   /\ FlagsAfter = <<FALSE, TRUE, FALSE, FALSE, FALSE>>
                   /\ EndsWith(buf', <<"</li>">>)
             /\ kind = "ordered" =>
                   /\ FlagsAfter = <<FALSE, FALSE, TRUE, FALSE, FALSE>>
                   /\ EndsWith(buf', <<"</li>">>)
             /\ kind = "quote" =>
                   /\ FlagsAfter = <<FALSE, FALSE, FALSE, TRUE, FALSE>>
                   /\ ~EndsWith(buf', <<"\n">>)
             /\ kind = "para" =>
                   /\ FlagsAfter = <<TRUE, FALSE, FALSE, FALSE, FALSE>>
                   /\ EndsWith(buf', <<"\n">>) ]_vars

\* A heading of level two has closed an open list and been written with its
\* text formatted.
C11_HeadingAfterList ==
    /\ rpc = "loop" /\ Len(lines) = 2
    /\ lines[1] = <<"-", " ", "a">>
    /\ lines[2] = <<"#", "#", " ", "*", "a", "*">>
    /\ EndsWith(buf, <<"</li>", "</ul>", "<h2>", "<em>", "a", "</em>", "</h2>">>)

----------------------------------------------------------------------------
(* Lists *)

\* What the step has added to the output.
Added == From(buf', Len(buf) + 1)

\* The text of an ordered item: the line after its digits, the '.' and one
\* white space, trimmed.  The digits are not in it.
OrderedItemText(line) == TrimSpace(From(line, Len(Run(line, Digit)) + 3))

\* The item <li>text</li>, text being formatted.
Item(text) == <<"<li>">> \o FormatInline(text, imageCount).out \o <<"</li>">>

\* C12: a run of consecutive unordered items is one <ul> with one <li> for each
\* line, in the order of the lines, and a run of consecutive ordered items is
\* one <ol> with one <li> for each line, written without regard to the
\* numerals of the lines; an item of the other kind, a blank line, any other
\* block line or the end of the document closes the list.
C12_RunOfItemsIsOneList ==
    /\ [](/\ inList => /\ ~inCode
                       /\ KindOf(LastLine(lines)) = "list"
          /\ inOrderedList => /\ ~inCode
                              /\ KindOf(LastLine(lines)) = "ordered"
          /\ Count(buf, "<ul>") = Count(buf, "</ul>") + (IF inList THEN 1 ELSE 0)
          /\ Count(buf, "<ol>") = Count(buf, "</ol>") + (IF inOrderedList THEN 1 ELSE 0))
    /\ [][ /\ (/\ TakesLine /\ ~inCode
               /\ TrimSpace(LastLine(lines')) # <<>>
               /\ ~HasPrefix(LastLine(lines'), Fence)
               /\ KindOf(LastLine(lines')) = "list") =>
                 /\ inList'
                 /\ Added = (IF inList THEN <<>> ELSE OpenClosers \o <<"<ul>">>)
                            \o Item(TrimSpace(From(LastLine(lines'), 3)))
           /\ (/\ TakesLine /\ ~inCode
               /\ TrimSpace(LastLine(lines')) # <<>>
               /\ ~HasPrefix(LastLine(lines'), Fence)
               /\ KindOf(LastLine(lines')) = "ordered") =>
                 /\ inOrderedList'
                 /\ Added = (IF inOrderedList THEN <<>> ELSE OpenClosers \o <<"<ol>">>)
                            \o Item(OrderedItemText(LastLine(lines')))
           /\ (inList /\ buf' # buf /\ ~inList') => HasPrefix(Added, <<"</ul>">>)
           /\ (inOrderedList /\ buf' # buf /\ ~inOrderedList')
                 => HasPrefix(Added, <<"</ol>">>)
           /\ (inList /\ lines' # lines
                 /\ KindOf(LastLine(lines')) # "list") => ~inList'
           /\ (inOrderedList /\ lines' # lines
                 /\ KindOf(LastLine(lines')) # "ordered") => ~inOrderedList'
           /\ (rpc = "loop" /\ rpc' = "done") => ~inList' /\ ~inOrderedList' ]_vars

\* Two ordered items with different numerals are one <ol>, which an unordered
\* item has closed.
C12_OrderedRunThenUnorderedItem ==
    /\ rpc = "loop"
    /\ lines = << <<"1", ".", " ", "a">>, <<"5", ".", " ", "b">>, <<"-", " ", "a">> >>
    /\ buf = <<"<ol>", "<li>", "a", "</li>", "<li>", "b", "</li>", "</ol>",
               "<ul>", "<li>", "a", "</li>">>

----------------------------------------------------------------------------
(* Paragraphs *)

\* A paragraph is open and no fence is.
ParaOpen == inPara /\ ~inCode

\* C13: a run of consecutive paragraph lines is one <p>: the first line opens
\* it, each later line is preceded by one space, the formatted text of each
\* line is followed by a newline, and </p> is written once, by the step that
\* ends the run.
C13_RunOfLinesIsOneParagraph ==
    /\ [](ParaOpen => /\ KindOf(LastLine(lines)) = "para"
                      /\ TrimSpace(LastLine(lines)) # <<>>
                      /\ ~HasPrefix(LastLine(lines), Fence))
    /\ [][ /\ (/\ TakesLine /\ ~inCode
               /\ TrimSpace(LastLine(lines')) # <<>>
               /\ ~HasPrefix(LastLine(lines'), Fence)
               /\ KindOf(LastLine(lines')) = "para") =>
                 /\ ParaOpen'
                 /\ Added = (IF inPara THEN <<" ">> ELSE OpenClosers \o <<"<p>">>)
                            \o FormatInline(TrimSpace(LastLine(lines')), imageCount).out
                            \o <<"\n">>
           /\ (ParaOpen /\ ~ParaOpen') =>
                 /\ HasPrefix(Added, <<"</p>">>)
                 /\ Count(Added, "</p>") = 1
           /\ (ParaOpen /\ ParaOpen') => Count(Added, "</p>") = 0 /\ Count(Added, "<p>") = 0
           /\ (ParaOpen /\ lines' # lines
                 /\ \/ KindOf(LastLine(lines')) # "para"
                    \/ TrimSpace(LastLine(lines')) = <<>>
                    \/ HasPrefix(LastLine(lines'), Fence)) => ~ParaOpen'
           /\ (rpc = "loop" /\ rpc' = "done") => ~ParaOpen' ]_vars

\* The document of the one line **h** w is the paragraph
\* <p><strong>h</strong> w\n</p>.
C13_BoldParagraphRendered ==
    /\ rpc = "done"
    /\ lines = << <<"*", "*", "h", "*", "*", " ", "w">> >>
    /\ buf = <<"<p>", "<strong>", "h", "</strong>", " ", "w", "\n", "</p>">>

----------------------------------------------------------------------------
(* Emphasis and the attributes of the tags FormatInline writes *)

\* The literals that open and that end the opening tag of a link and the tag
\* of an image.
TagOpeners == {"<a href=\"", "<img "}
TagClosers == {AttrsPlain, AttrsNewTab, "\" decoding=\"async\"/>"}

\* Position i of str is among the attributes of a tag FormatInline has written.
InsideTag(str, i) ==
    \E j \in 1..(i - 1) :
        /\ str[j] \in TagOpeners
        /\ \A k \in (j + 1)..(i - 1) : str[k] \notin TagClosers

\* The value the URL of the construct str has in the output: between the
\* literal that opens the attribute and the one that follows it.
EmittedURL(str) ==
    IF ConstructFirst(str) = 2
    THEN <<"\" src=\"">> \o SafeURL(EscapeString(ConstructParts(str).url))
         \o <<"\" style=\"">>
    ELSE <<"<a href=\"">> \o SafeURL(EscapeString(ConstructParts(str).url))
         \o <<IF str[Len(str)] = "^" THEN AttrsNewTab ELSE AttrsPlain>>

\* C14: the emphasis substitution leaves an accepted URL as it is: what
\* FormatInline returns for a link or an image whose URL is accepted holds the
\* URL with its '_' and '*' in the href or src, and no <em>, </em>, <strong>
\* or </strong> is among the attributes of a tag FormatInline has written.
C14_EmphasisNeverInsideTag ==
    fpc = "return" =>
        /\ \A i \in 1..Len(escaped) :
               escaped[i] \in EmphasisTags => ~InsideTag(escaped, i)
        /\ (/\ IsConstruct(s)
            /\ Count(ConstructParts(s).url, "(") = 0
            /\ Count(ConstructParts(s).url, BT) < 2
            /\ SafeURL(EscapeString(ConstructParts(s).url)) # <<>>)
           => Contains(escaped, EmittedURL(s))

\* FormatInline has returned for a link whose accepted URL holds '_'.
C14_LinkWithUnderscoresReturned ==
    /\ fpc = "return"
    /\ s = <<"[", "t", "]", "(", "/", "u", "_", "a", "_", ")">>
    /\ escaped = <<"<a href=\"", "/", "u", "_", "a", "_", AttrsPlain, "t", "</a>">>

----------------------------------------------------------------------------
(* Bold and italic *)

Marks == {"*", "_"}

\* The text between the first two and the last two characters of str.
Inner(str) == Sub(str, 3, Len(str) - 2)

\* str is one span that the doubled mark delimits on both sides: the text
\* between the delimiters is not empty, holds no doubled mark and has none at
\* its ends.
IsBoldSpan(str, mark) ==
    /\ Len(str) >= 5
    /\ Sub(str, 1, 2) = <<mark, mark>>
    /\ From(str, Len(str) - 1) = <<mark, mark>>
    /\ str[3] # mark /\ str[Len(str) - 2] # mark
    /\ ~Contains(Inner(str), <<mark, mark>>)

\* The letters and spaces of str, which no step of FormatInline rewrites.
IsPlain(str) ==
    /\ str # <<>>
    /\ \A i \in 1..Len(str) : str[i] \in {"a", "b", "c", "h", "t", "w", "x", " "}

\* C15: bold is matched before italic.  What FormatInline returns for a span
\* delimited by ** (or __) on both sides is <strong>...</strong>, so neither
\* delimiter is taken as an italic mark; when the span is plain text around
\* one italic span, the result is <strong>..<em>..</em>..</strong>.
C15_BoldBeforeItalic ==
    fpc = "return" =>
        \A mark \in Marks :
            IsBoldSpan(s, mark) =>
                /\ escaped[1] = "<strong>"
                /\ escaped[Len(escaped)] = "</strong>"
                /\ Count(escaped, "<strong>") = 1
                /\ \A i, j \in 1..Len(Inner(s)) :
                       (/\ i < j
                        /\ IsPlain(Sub(Inner(s), 1, i - 1))
                        /\ Inner(s)[i] = mark
                        /\ IsPlain(Sub(Inner(s), i + 1, j - 1))
                        /\ Inner(s)[j] = mark
                        /\ IsPlain(From(Inner(s), j + 1)))
                       => escaped = <<"<strong>">> \o Sub(Inner(s), 1, i - 1)
                                    \o <<"<em>">> \o Sub(Inner(s), i + 1, j - 1)
                                    \o <<"</em>">> \o From(Inner(s), j + 1)
                                    \o <<"</strong>">>

\* FormatInline has returned for an italic span inside a bold span.
C15_ItalicInsideBoldReturned ==
    /\ fpc = "return"
    /\ s = <<"*", "*", "a", "*", "b", "*", "c", "*", "*">>
    /\ escaped = <<"<strong>", "a", "<em>", "b", "</em>", "c", "</strong>">>

----------------------------------------------------------------------------
(* The loading hint of the images of one render *)

High == "fetchpriority=\"high\""
Eager == "loading=\"eager\""

\* The positions of the images written so far.
Images == { i \in 1..Len(buf) : buf[i] = "<img " }

\* C16: in the output of one render the first image written has
\* fetchpriority="high" and every later one loading="eager", whichever line
\* or table cell it comes from; the counter is the number of images written, so
\* an image whose URL is rejected does not advance it; no image has another
\* hint.
C16_FirstImageHighLaterEager ==
    /\ imageCount = Cardinality(Images)
    /\ \A i \in Images :
           /\ i < Len(buf)
           /\ buf[i + 1] = (IF i = Min(Images) THEN High ELSE Eager)
    /\ \A i \in 1..Len(buf) : buf[i] \in {High, Eager} => (i - 1) \in Images
    /\ ~Contains(buf, <<"loading=\"lazy\"">>)

\* A rejected image and an accepted one in a paragraph, then an image in a
\* table cell: the accepted ones are the first and the second of the render.
C16_RejectedThenTwoAccepted ==
    /\ Len(lines) = 2
    /\ lines[1] = <<"!", "[", "a", "]", "(", "j", "s", ":", "x", ")", "{", "}",
                    "!", "[", "b", "]", "(", "/", "i", ")", "{", "}">>
    /\ HasPrefix(lines[2], <<"|", "!">>)
    /\ imageCount = 2
    /\ HasPrefix(buf, <<"<p>", "a", "<img ", High>>)
    /\ Contains(buf, <<"<th>", "<img ", Eager>>)

----------------------------------------------------------------------------
(* Tables *)

\* The step takes a table row outside a fence.
TakesRow ==
    /\ TakesLine /\ ~inCode
    /\ KindOf(LastLine(lines')) = "table"

\* str is open, then n cells each written between cellOpen and cellClose and
\* holding no cell tag of either kind, then close.
IsRowOf(str, open, n, cellOpen, cellClose, close) ==
    /\ HasPrefix(str, open) /\ EndsWith(str, close)
    /\ Count(str, cellOpen) = n /\ Count(str, cellClose) = n
    /\ \A i \in 1..Len(str) :
           /\ str[i] \in {"<th>", "<td>"} => str[i] = cellOpen
           /\ str[i] \in {"</th>", "</td>"} => str[i] = cellClose
           /\ str[i] = cellOpen =>
                 \E j \in (i + 1)..Len(str) :
                     /\ str[j] = cellClose
                     /\ \A k \in (i + 1)..(j - 1) : str[k] # cellOpen
    /\ n > 0 => str[Len(open) + 1] = cellOpen
                /\ str[Len(str) - Len(close)] = cellClose

\* C18: the first row of a table is its one <thead> row, of <th> cells; a
\* later row that is a separator writes no cell; any other later row is a
\* <tr> of <td> cells, one for each cell of the row; <tbody> is opened once, by
\* the first row after the header; the step that closes the table writes
\* </tbody> exactly when <tbody> was opened.
C18_TableHeadBodyRows ==
    /\ [](/\ tableHeaderDone => inTable
          /\ Count(buf, "<thead>") = Count(buf, "<table>")
          /\ Count(buf, "<table>")
               = Count(buf, "</table>") + (IF inTable THEN 1 ELSE 0)
          /\ Count(buf, "<tbody>")
               = Count(buf, "</tbody>") + (IF tableHeaderDone THEN 1 ELSE 0)
          /\ Count(buf, "<tbody>") <= Count(buf, "<table>"))
    /\ [][ /\ (TakesRow /\ ~inTable) =>
                 /\ inTable' /\ ~tableHeaderDone'
                 /\ HasPrefix(Added, OpenClosers \o <<"<table>">>)
                 /\ IsRowOf(From(Added, Len(OpenClosers) + 2), <<"<thead>", "<tr>">>,
                            Len(parseTableCells(LastLine(lines'))), "<th>", "</th>",
                            <<"</tr>", "</thead>">>)
           /\ (TakesRow /\ inTable) =>
                 /\ inTable' /\ tableHeaderDone'
                 /\ HasPrefix(Added, IF tableHeaderDone THEN <<>> ELSE <<"<tbody>">>)
                 /\ Count(Added, "<tbody>") = (IF tableHeaderDone THEN 0 ELSE 1)
                 /\ LET row == From(Added, IF tableHeaderDone THEN 1 ELSE 2)
                    IN IF isTableSeparator(LastLine(lines'))
                       THEN row = <<>>
                       ELSE IsRowOf(row, <<"<tr>">>,
                                    Len(parseTableCells(LastLine(lines'))),
                                    "<td>", "</td>", <<"</tr>">>)
           /\ (inTable /\ ~inTable') =>
                 /\ Count(Added, "</table>") = 1
                 /\ Count(Added, "</tbody>") = (IF tableHeaderDone THEN 1 ELSE 0)
                 /\ tableHeaderDone => Contains(Added, <<"</tbody>", "</table>">>)
           /\ (inTable /\ inTable') =>
                 Count(Added, "</tbody>") = 0 /\ Count(Added, "</table>") = 0 ]_vars

\* A header, a separator and a row of two cells, and the end of the document.
C18_HeaderSeparatorRowClosed ==
    /\ rpc = "done"
    /\ Len(lines) = 3
    /\ ~isTableSeparator(lines[1]) /\ isTableSeparator(lines[2])
    /\ lines[3] = lines[1]
    /\ Count(buf, "<th>") = 2 /\ Count(buf, "<td>") = 2
    /\ Contains(buf, <<"</tr>", "</thead>", "<tbody>", "<tr>", "<td>">>)
    /\ EndsWith(buf, <<"</td>", "</tr>", "</tbody>", "</table>">>)

----------------------------------------------------------------------------
(* Concurrent calls of RenderMarkdown.  Each call is given its own buffer   *)
(* (markdown.go:32-33); its flags, its image counter and the closures over  *)
(* them are locals of the call (40-96); the expressions (17-27) are only    *)
(* read.  A step of a call is one pass of its loop or its final flush.      *)

MaxDocLen == 2

Calls == {1, 2}

\* The lines of the documents rendered concurrently: images in a paragraph
\* and in a table row, and inline code.
ParPool ==
    { <<"!", "[", "a", "]", "(", "j", "s", ":", "x", ")", "{", "}",
        "!", "[", "b", "]", "(", "/", "i", ")", "{", "}">>,
      <<"|", "!", "[", "a", "]", "(", "/", "i", ")", "{", "}", "|", "b", "|">>,
      <<BT, "a", BT, " ", BT, "b", BT>> }

\* The documents of one to n lines of pool.
Docs(pool, n) == UNION { [1..k -> pool] : k \in 1..n }

\* The body of the loop (markdown.go:98-255) for one line.
LoopBody(st, rawline) ==
    With(st, LAMBDA st1 :
    With(LineOf(rawline), LAMBDA line :
    With(Branch(line, st1.inCode), LAMBDA kind :
        CASE kind = "fence" -> FenceBranch(st1, line)
          [] kind = "code" -> CodeBranch(st1, line)
          [] kind = "blank" -> BlankBranch(st1)
          [] kind = "rule" -> RuleBranch(st1)
          [] kind = "h1" -> HeadingBranch(st1, line, 1)
          [] kind = "h2" -> HeadingBranch(st1, line, 2)
          [] kind = "h3" -> HeadingBranch(st1, line, 3)
          [] kind = "table" -> TableBranch(st1, line)
          [] kind = "list" -> ListBranch(st1, line)
          [] kind = "ordered" -> OrderedListBranch(st1, line)
          [] kind = "quote" -> QuoteBranch(st1, line)
          [] kind = "para" -> ParaBranch(st1, line))))

\* RenderMarkdown (markdown.go:39-263) run alone on the lines of md from line
\* i on, st being its locals: what it leaves in its buffer.
RECURSIVE RenderFrom(_, _, _)
RenderFrom(st, md, i) ==
    IF i > Len(md) THEN FinalFlush(st).buf
    ELSE With(LoopBody(st, md[i]), LAMBDA st1 : RenderFrom(st1, md, i + 1))

RenderMarkdown(md) == RenderFrom(St0, md, 1)

\* A plausible slip: the image counter is a variable of the package, which all
\* the calls share.
CounterOfPackage(c) == 1

\* Where call c keeps its image counter: in a local of its own
\* (markdown.go:40).
CounterOf(c) == c

InitPar ==
    /\ calls \in [Calls -> { [doc |-> d, idx |-> 0, st |-> St0, pc |-> "loop"] :
                              d \in Docs(ParPool, MaxDocLen) }]
    /\ counters = [c \in Calls |-> 0]
    /\ IdleRender /\ IdleInline /\ IdleURL /\ IdleOutside /\ IdleLimiter /\ IdleStore /\ IdleCache

\* Call c handles its next line (markdown.go:98-255).
CallLine(c) ==
    /\ calls[c].pc = "loop"
    /\ calls[c].idx < Len(calls[c].doc)
    /\ \E st1 \in { LoopBody([calls[c].st EXCEPT !.imageCount = counters[CounterOf(c)]],
                             calls[c].doc[calls[c].idx + 1]) } :
          /\ calls' = [calls EXCEPT ![c].idx = @ + 1, ![c].st = st1]
          /\ counters' = [counters EXCEPT ![CounterOf(c)] = st1.imageCount]
    /\ UNCHANGED <<rvars, fvars, uvars, avars, lvars, svars, pvars>>

\* Call c is past its last line, flushes and returns (markdown.go:257-263).
CallEnd(c) ==
    /\ calls[c].pc = "loop"
    /\ calls[c].idx = Len(calls[c].doc)
    /\ calls' = [calls EXCEPT ![c].st = FinalFlush(@), ![c].pc = "done"]
    /\ UNCHANGED <<counters, rvars, fvars, uvars, avars, lvars, svars, pvars>>

NextPar == \E c \in Calls : CallLine(c) \/ CallEnd(c)

SpecPar == InitPar /\ [][NextPar]_vars

\* C17: concurrent calls of RenderMarkdown do not interact: however their
\* steps interleave, a call that has returned has left in its buffer what
\* RenderMarkdown leaves there for its document when it runs alone.
C17_ConcurrentRendersIndependent ==
    \A c \in DOMAIN calls :
        calls[c].pc = "done" => calls[c].st.buf = RenderMarkdown(calls[c].doc)

\* Two calls, each with an image in its document, have both returned, and each
\* has given its own first image the high priority.
C17_BothCallsReturnedWithFirstImage ==
    /\ DOMAIN calls = Calls
    /\ \A c \in Calls :
           /\ calls[c].pc = "done"
           /\ Contains(calls[c].st.buf, <<"<img ", High>>)
           /\ ~Contains(calls[c].st.buf, <<"<img ", Eager>>)

----------------------------------------------------------------------------
(* Termination: one call of RenderMarkdown over a document, or one call of  *)
(* ApplyOutsideTags (markdown.go:290-310) with the emphasis closure, its    *)
(* loop taken one pass at a time.                                           *)

MaxSegs == 3

\* The pieces an argument of ApplyOutsideTags is made of.
TagPool == {<<"x">>, <<"*">>, <<"<">>, <<">">>, <<"<a href=\"">>, <<AttrsPlain>>}

\* The lines of the documents whose rendering is followed to its return: an
\* empty line, a fence, a table row, a list item, a paragraph line that ends
\* in a carriage return, an image.
TermPool ==
    { <<>>,
      <<BT, BT, BT, "c", "<">>,
      <<"|", "a", "|", "'", "|">>,
      <<"1", ".", " ", ">">>,
      <<"a", "<", "\r">>,
      <<"!", "[", "i", "]", "(", "/", "u", ")", "{", "}">> }

\* A plausible slip: s = s[lt:], which leaves the tag in s.
RestFromTag(str, lt, gt) == From(str, lt)

\* markdown.go:308: s = s[lt+gt+1:], lt and gt being the positions of the '<'
\* and of the '>' in str.
Rest(str, lt, gt) == From(str, gt + 1)

InitTerm ==
    /\ \/ /\ calls \in [{1} -> { [doc |-> d, idx |-> 0, st |-> St0, pc |-> "loop"] :
                                  d \in Docs(TermPool, MaxDocLen) }]
          /\ counters = [c \in {1} |-> 0]
          /\ IdleOutside
       \/ /\ IdleCalls
          /\ targ \in Texts(TagPool, MaxSegs)
          /\ ts = targ /\ tout = <<>> /\ tpc = "loop"
    /\ IdleRender /\ IdleInline /\ IdleURL /\ IdleLimiter /\ IdleStore /\ IdleCache

\* One pass of the loop of ApplyOutsideTags (markdown.go:292-309).
OutsideIteration ==
    /\ tpc = "loop" /\ ts # <<>>
    /\ LET lts == { i \in 1..Len(ts) : HasLt(ts[i]) }
           lt == Min(lts)
           pre == IF lt > 1 THEN Emphasis(Sub(ts, 1, lt - 1)) ELSE <<>>
           gts == { i \in lt..Len(ts) : HasGt(ts[i]) /\ (i > lt \/ ts[i] # "<") }
       IN IF lts = {}
          THEN tout' = tout \o Emphasis(ts) /\ ts' = ts /\ tpc' = "return"
          ELSE IF gts = {}
          THEN tout' = tout \o pre \o From(ts, lt) /\ ts' = ts /\ tpc' = "return"
          ELSE /\ tout' = tout \o pre \o Sub(ts, lt, Min(gts))
               /\ ts' = Rest(ts, lt, Min(gts))
               /\ tpc' = "loop"
    /\ UNCHANGED <<targ, rvars, fvars, uvars, cvars, lvars, svars, pvars>>

\* The condition of the loop fails: return buf.String() (markdown.go:292, 310).
OutsideReturn ==
    /\ tpc = "loop" /\ ts = <<>>
    /\ tpc' = "return"
    /\ UNCHANGED <<targ, ts, tout, rvars, fvars, uvars, cvars, lvars, svars, pvars>>

NextTerm ==
    \/ \E c \in DOMAIN calls : CallLine(c) \/ CallEnd(c)
    \/ OutsideIteration
    \/ OutsideReturn

\* A call that has a step to take takes it.
SpecTerm == InitTerm /\ [][NextTerm]_vars /\ WF_vars(NextTerm)

\* The calls have returned.
Returned ==
    /\ \A c \in DOMAIN calls : calls[c].pc = "done"
    /\ tpc \in {"idle", "return"}

\* C19: RenderMarkdown returns for every document: it takes the lines one by
\* one in their order, each once, its position never past the last line, and
\* returns after the final flush that follows the last line.  Every pass of
\* the loop of ApplyOutsideTags that goes on to another pass has made its s
\* shorter, so the function returns for every argument, one with a '<' that
\* nothing closes included, and with the result of the function.
C19_CallsReturn ==
    /\ [](\A c \in DOMAIN calls :
             /\ calls[c].idx \in 0..Len(calls[c].doc)
             /\ calls[c].pc = "done" => calls[c].idx = Len(calls[c].doc))
    /\ [][\A c \in DOMAIN calls :
             calls'[c] # calls[c] =>
                 /\ calls[c].pc = "loop" /\ calls'[c].doc = calls[c].doc
                 /\ \/ /\ calls'[c].idx = calls[c].idx + 1
                       /\ calls'[c].pc = "loop"
                       /\ calls'[c].st
                            = LoopBody(calls[c].st, calls[c].doc[calls'[c].idx])
                    \/ /\ calls'[c].idx = calls[c].idx
                       /\ calls[c].idx = Len(calls[c].doc)
                       /\ calls'[c].pc = "done"]_vars
    /\ [][(tpc = "loop" /\ tpc' = "loop") => Len(ts') < Len(ts)]_vars
    /\ [](tpc = "return" => tout = ApplyOutsideTags(targ))
    /\ <>Returned

\* ApplyOutsideTags has returned for an argument that ends in a '<' nothing
\* closes, after a pass that took the tag before it.
C19_UnclosedTagReturned ==
    /\ tpc = "return"
    /\ targ = <<"<", ">", "<">>
    /\ ts = <<"<">>
    /\ tout = targ

----------------------------------------------------------------------------
(* The login limiters: loginLimiter of main.go, whose Allow is one critical *)
(* section, and LoginLimiter of the package, whose Allow is Check followed  *)
(* by Record, each a critical section of its own.  A step is what a caller  *)
(* does before it takes the mutex, or one critical section.                 *)

\* The arguments of newLoginLimiter / NewLoginLimiter.
max == 1
window == 1

MaxTime == 2
MaxAllow == 2

Procs == {1, 2}
IPs == {"a", "b"}

\* As Kept, but an attempt made at the cutoff is kept too.
KeptAtCutoff(hits, cutoff) == SelectSeq(hits, LAMBDA t : t >= cutoff)

\* for _, t := range hits { if t.After(cutoff) { kept = append(kept, t) } }
Kept(hits, cutoff) == SelectSeq(hits, LAMBDA t : t > cutoff)

InitLimiter ==
    /\ now = 0
    /\ attempts = [ip \in IPs |-> <<>>]
    /\ mattempts = [ip \in IPs |-> <<>>]
    /\ lproc = [p \in Procs |-> [pc |-> "idle", ip |-> "a", t |-> 0, n |-> 0]]
    /\ granted = <<>>
    /\ IdleRender /\ IdleInline /\ IdleURL /\ IdleCalls /\ IdleOutside /\ IdleStore /\ IdleCache

\* Time passes.
Tick ==
    /\ now < MaxTime
    /\ now' = now + 1
    /\ UNCHANGED <<attempts, mattempts, lproc, granted, rvars, fvars, uvars, cvars, avars, svars, pvars>>

\* main.go:542-544: Allow(ip) reads the clock before it takes the mutex.
MainAllowBegin(p) ==
    /\ lproc[p].pc = "idle" /\ lproc[p].n < MaxAllow
    /\ \E ip \in IPs :
          lproc' = [lproc EXCEPT ![p] = [pc |-> "main", ip |-> ip, t |-> now,
                                         n |-> @.n + 1]]
    /\ UNCHANGED <<now, attempts, mattempts, granted, rvars, fvars, uvars, cvars, avars, svars, pvars>>

\* main.go:546-562: the critical section of Allow.
MainAllowLocked(p) ==
    /\ lproc[p].pc = "main"
    /\ LET ip == lproc[p].ip
           kept == Kept(mattempts[ip], lproc[p].t - window)
       IN IF Len(kept) >= max
          THEN /\ mattempts' = [mattempts EXCEPT ![ip] = kept]
               /\ granted' = granted
          ELSE /\ mattempts' = [mattempts EXCEPT ![ip] = Append(kept, lproc[p].t)]
               /\ granted' = Append(granted, [lim |-> "loginLimiter", ip |-> ip,
                                               at |-> lproc[p].t])
    /\ lproc' = [lproc EXCEPT ![p].pc = "idle"]
    /\ UNCHANGED <<now, attempts, rvars, fvars, uvars, cvars, avars, svars, pvars>>

\* part_004:123-124, 133-134: Allow(ip) calls Check(ip), which reads the clock
\* before it takes the mutex.
AllowBegin(p) ==
    /\ lproc[p].pc = "idle" /\ lproc[p].n < MaxAllow
    /\ \E ip \in IPs :
          lproc' = [lproc EXCEPT ![p] = [pc |-> "check", ip |-> ip,
                                         t |-> now - window, n |-> @.n + 1]]
    /\ UNCHANGED <<now, attempts, mattempts, granted, rvars, fvars, uvars, cvars, avars, svars, pvars>>

\* part_004:136-147: the critical section of Check; when it returns false
\* Allow returns false (124-126).
Check(p) ==
    /\ lproc[p].pc = "check"
    /\ LET ip == lproc[p].ip
           kept == Kept(attempts[ip], lproc[p].t)
       IN /\ attempts' = [attempts EXCEPT ![ip] = kept]
          /\ lproc' = [lproc EXCEPT ![p].pc = IF Len(kept) < max THEN "record"
                                              ELSE "idle"]
    /\ UNCHANGED <<now, mattempts, granted, rvars, fvars, uvars, cvars, avars, svars, pvars>>

\* part_004:151-155 and 127-128: the critical section of Record, after which
\* Allow returns true.
Record(p) ==
    /\ lproc[p].pc = "record"
    /\ attempts' = [attempts EXCEPT ![lproc[p].ip] = Append(@, now)]
    /\ granted' = Append(granted, [lim |-> "LoginLimiter", ip |-> lproc[p].ip,
                                   at |-> now])
    /\ lproc' = [lproc EXCEPT ![p].pc = "idle"]
    /\ UNCHANGED <<now, mattempts, rvars, fvars, uvars, cvars, avars, svars, pvars>>

\* main.go:519-539 and part_004:99-119: a tick of the cleanup goroutine.  The
\* ticker fires a window after the limiter was made; the goroutine reads the
\* clock, at some time c, before it takes the mutex, under which it drops the
\* attempts that are not after its cutoff.
cleanup ==
    /\ \E c \in window..now :
          /\ \E ip \in IPs :
                \/ Kept(attempts[ip], c - window) # attempts[ip]
                \/ Kept(mattempts[ip], c - window) # mattempts[ip]
          /\ attempts' = [ip \in IPs |-> Kept(attempts[ip], c - window)]
          /\ mattempts' = [ip \in IPs |-> Kept(mattempts[ip], c - window)]
    /\ UNCHANGED <<now, lproc, granted, rvars, fvars, uvars, cvars, avars, svars, pvars>>

NextLimiter ==
    \/ Tick
    \/ cleanup
    \/ \E p \in Procs :
          \/ MainAllowBegin(p) \/ MainAllowLocked(p)
          \/ AllowBegin(p) \/ Check(p) \/ Record(p)

SpecLimiter == InitLimiter /\ [][NextLimiter]_vars

\* The calls of Allow(ip) on limiter lim that returned true in the window that
\* ends at time t, the time of a call being the one the limiter has recorded
\* for it.
GrantedIn(lim, ip, t) ==
    { i \in 1..Len(granted) :
        /\ granted[i].lim = lim /\ granted[i].ip = ip
        /\ granted[i].at > t - window /\ granted[i].at <= t }

\* C20: for each limiter and each IP, at most max calls of Allow(ip) return
\* true in any one window, however the calls interleave; and a call for one
\* IP leaves the attempts of every other IP as they are.
C20_AtMostMaxAllowedPerWindow ==
    /\ [](\A lim \in {"loginLimiter", "LoginLimiter"}, ip \in IPs, t \in 0..MaxTime :
             Cardinality(GrantedIn(lim, ip, t)) <= max)
    /\ [][\A ip \in IPs :
             (lproc' # lproc /\ \A p \in Procs : lproc'[p] # lproc[p] => lproc[p].ip # ip)
             => attempts'[ip] = attempts[ip] /\ mattempts'[ip] = mattempts[ip]]_vars

\* As in TestLoginLimiterIsPerIP: with max 1, a call for each of two IPs has
\* returned true at the same time, and a second call for the first has
\* returned false.
C20_EachIPAllowedOnce ==
    /\ granted = << [lim |-> "LoginLimiter", ip |-> "a", at |-> 0],
                    [lim |-> "LoginLimiter", ip |-> "b", at |-> 0] >>
    /\ lproc[1] = [pc |-> "idle", ip |-> "a", t |-> -1, n |-> 2]
    /\ lproc[2].pc = "idle"

----------------------------------------------------------------------------
\* The attempts limiter lim has recorded for ip, cleaned up or not, that are
\* after the cutoff: the calls of Allow(ip) that returned true.
RecordedAfter(lim, ip, cutoff) ==
    { i \in 1..Len(granted) :
        granted[i].lim = lim /\ granted[i].ip = ip /\ granted[i].at > cutoff }

\* What a call of Allow(ip) that reads the clock at time t or later finds is
\* the same in hits and in hits2.
SameFrom(hits, hits2, t) ==
    \A u \in t..MaxTime : Kept(hits, u - window) = Kept(hits2, u - window)

\* The limiters whose Allow is one critical section (main.go:541-563,
\* part_004:50-71), their callers and their cleanup goroutine.
NextWindow ==
    \/ Tick
    \/ cleanup
    \/ \E p \in Procs : MainAllowBegin(p) \/ MainAllowLocked(p)

SpecWindow == InitLimiter /\ [][NextWindow]_vars

\* C21: a call of Allow(ip) returns true whenever fewer than max attempts for
\* ip were recorded in the window before the clock reading it works with, so
\* a blocked IP is allowed again once the window has passed; a call that is
\* denied records nothing, and leaves what every later call finds as it was;
\* and so does a tick of the cleanup goroutine.
C21_AllowedAgainAfterWindow ==
    [][ /\ \A p \in Procs :
              LET ip == lproc[p].ip
              IN (lproc[p].pc = "main" /\ lproc'[p].pc = "idle") =>
                    /\ Cardinality(RecordedAfter("loginLimiter", ip,
                                                 lproc[p].t - window)) < max
                          => granted' = Append(granted,
                                 [lim |-> "loginLimiter", ip |-> ip, at |-> lproc[p].t])
                    /\ granted' = granted
                          => /\ Len(mattempts'[ip]) <= Len(mattempts[ip])
                             /\ SameFrom(mattempts'[ip], mattempts[ip], lproc[p].t)
        /\ (lproc' = lproc /\ now' = now) =>
              \A ip \in IPs : SameFrom(mattempts'[ip], mattempts[ip], now) ]_vars

\* As in TestLoginLimiterResetsAfterWindow: with max 1, of three calls of
\* Allow for one IP the first has returned true, the second false, and the
\* third, a window after the first, true.
C21_BlockedThenAllowedAfterWindow ==
    /\ granted = << [lim |-> "loginLimiter", ip |-> "a", at |-> 0],
                    [lim |-> "loginLimiter", ip |-> "a", at |-> window] >>
    /\ lproc[1] = [pc |-> "idle", ip |-> "a", t |-> window, n |-> 2]
    /\ lproc[2] = [pc |-> "idle", ip |-> "a", t |-> 0, n |-> 1]
    /\ mattempts["a"] = << window >>

----------------------------------------------------------------------------
(* The store: the table posts of the database (markdown.go:458-470) and the *)
(* methods of Store over it.  A slug, a title, a content are strings taken  *)
(* whole; a tag is a sequence of characters, because SavePost and ParseTags *)
(* work on its characters; a date is a number, ordered as the date strings  *)
(* are; Content stands for Summary as well, which is stored the same way.   *)

Slugs == {"x", "y"}

\* The values of the field Tags of the posts that are saved.
TagsPool ==
    { <<>>,
      << <<"G", "o">> >>,
      << <<"g", "o">>, <<" ", "w", "e", "b", " ">> >>,
      << <<"a", ",", "b">> >>,
      << <<>>, <<"a">> >> }

\* The posts that are saved: a BlogPost as a caller of SavePost makes it.
PostPool ==
    { [Slug |-> sl, Title |-> ti, Date |-> d, Tags |-> tg, Content |-> "c",
       Link |-> <<>>, Published |-> pb] :
        sl \in Slugs, ti \in {"T1", "T2"}, d \in {1}, tg \in TagsPool, pb \in BOOLEAN }
    \cup
    { [Slug |-> "y", Title |-> "T1", Date |-> 2, Tags |-> << <<"g", "o">> >>,
       Content |-> "c", Link |-> <<>>, Published |-> TRUE] }

\* The arguments of ListPosts.
TagArgs == { <<>>, <<"g", "o">>, <<" ", "G", "o">>, <<"w", "e", "b">>, <<" ">> }

\* The table with no rows.
EmptyTable == [sl \in {} |-> {}]

\* strings.Join
RECURSIVE Join(_, _)
Join(elems, sep) ==
    IF elems = <<>> THEN <<>>
    ELSE IF Len(elems) = 1 THEN elems[1]
    ELSE elems[1] \o sep \o Join(Tail(elems), sep)

\* markdown.go:644-654
ParseTags(tagString) ==
    With(Trim(tagString, {","}), LAMBDA trimmed :
        IF trimmed = <<>> THEN <<>>
        ELSE With(Split(trimmed, ","), LAMBDA parts :
                 [i \in 1..Len(parts) |-> TrimSpace(parts[i])]))

\* markdown.go:621-634: the row INSERT OR REPLACE puts in the place of the
\* row of the same slug, if there is one.
RowOf(p) ==
    [title |-> p.Title, date |-> p.Date,
     tags |-> <<",">> \o Join([i \in 1..Len(p.Tags) |-> ToLower(TrimSpace(p.Tags[i]))],
                              <<",">>) \o <<",">>,
     content |-> p.Content,
     published |-> IF p.Published THEN 1 ELSE 0]

\* As Upsert, but a row that is there stays (INSERT OR IGNORE).
UpsertKeepsFirst(T, p) ==
    [sl \in DOMAIN T \cup {p.Slug} |-> IF sl \in DOMAIN T THEN T[sl] ELSE RowOf(p)]

Upsert(T, p) ==
    [sl \in DOMAIN T \cup {p.Slug} |-> IF sl = p.Slug THEN RowOf(p) ELSE T[sl]]

\* markdown.go:637-640: DELETE FROM posts WHERE slug = ?
Delete(T, slug) == [sl \in DOMAIN T \ {slug} |-> T[sl]]

\* The BlogPost the queries make of a row (markdown.go:501-510, 557-566).
PostOf(T, slug) ==
    [Slug |-> slug, Title |-> T[slug].title, Date |-> T[slug].date,
     Tags |-> ParseTags(T[slug].tags), Content |-> T[slug].content,
     Link |-> <<"/blog/", slug>>, Published |-> T[slug].published = 1]

\* ORDER BY date DESC: the orders the rows of the slugs in S can come in.
Ordered(T, S) ==
    { q \in [1..Cardinality(S) -> S] :
        /\ \A i, j \in DOMAIN q : i # j => q[i] # q[j]
        /\ \A i, j \in DOMAIN q : i < j => T[q[i]].date >= T[q[j]].date }

PostsOf(T, S) == { [i \in DOMAIN q |-> PostOf(T, q[i])] : q \in Ordered(T, S) }

\* markdown.go:484-518: what ListPosts(tag) can return.
StoreListPosts(T, tag) ==
    IF tag = <<>>
    THEN PostsOf(T, { sl \in DOMAIN T : T[sl].published = 1 })
    ELSE With(<<",">> \o ToLower(TrimSpace(tag)) \o <<",">>, LAMBDA field :
             PostsOf(T, { sl \in DOMAIN T :
                            /\ T[sl].published = 1
                            /\ IndexFrom(ToLower(T[sl].tags), field, 1) > 0 }))

\* The order of sort.Strings over the characters the tags are made of.
Chars == <<" ", ",">> \o UpperSeq \o LowerSeq
CodeOf(c) == CHOOSE k \in 1..Len(Chars) : Chars[k] = c
RECURSIVE Less(_, _)
Less(a, b) ==
    IF b = <<>> THEN FALSE
    ELSE IF a = <<>> THEN TRUE
    ELSE IF a[1] # b[1] THEN CodeOf(a[1]) < CodeOf(b[1])
    ELSE Less(Tail(a), Tail(b))

\* markdown.go:521-547
StoreListTags(T) ==
    LET set == UNION { { ToLower(ParseTags(T[sl].tags)[i]) :
                           i \in 1..Len(ParseTags(T[sl].tags)) } :
                       sl \in { x \in DOMAIN T : T[x].published = 1 } }
    IN CHOOSE result \in [1..Cardinality(set) -> set] :
          \A i, j \in DOMAIN result : i < j => Less(result[i], result[j])

\* markdown.go:592-618
StoreListAllPosts(T) == PostsOf(T, DOMAIN T)

\* What a call of the store has returned: the posts or tags, and the error.
Res(op, arg, out, err) == [op |-> op, arg |-> arg, out |-> out, err |-> err]

\* The variables that are not of the store.
nsvars == <<rvars, fvars, uvars, cvars, avars, lvars, pvars>>

InitStore ==
    /\ table = EmptyTable /\ saved = EmptyTable
    /\ sres = Res("NewStore", <<>>, <<>>, "nil")
    /\ IdleRender /\ IdleInline /\ IdleURL /\ IdleCalls /\ IdleOutside
    /\ IdleLimiter /\ IdleCache

\* markdown.go:621-634
SavePost(p) ==
    /\ table' = Upsert(table, p)
    /\ saved' = [sl \in DOMAIN saved \cup {p.Slug} |->
                    IF sl = p.Slug THEN p ELSE saved[sl]]
    /\ sres' = Res("SavePost", p.Slug, <<>>, "nil")
    /\ UNCHANGED nsvars

\* markdown.go:637-640
DeletePost(slug) ==
    /\ table' = Delete(table, slug)
    /\ saved' = [sl \in DOMAIN saved \ {slug} |-> saved[sl]]
    /\ sres' = Res("DeletePost", slug, <<>>, "nil")
    /\ UNCHANGED nsvars

\* markdown.go:550-568: QueryRow(... WHERE slug = ? AND published = 1).Scan
GetPost(slug) ==
    /\ sres' = IF slug \in DOMAIN table /\ table[slug].published = 1
               THEN Res("GetPost", slug, <<PostOf(table, slug)>>, "nil")
               ELSE Res("GetPost", slug, <<>>, "ErrNoRows")
    /\ UNCHANGED <<table, saved, nsvars>>

\* markdown.go:571-589
GetPostAny(slug) ==
    /\ sres' = IF slug \in DOMAIN table
               THEN Res("GetPostAny", slug, <<PostOf(table, slug)>>, "nil")
               ELSE Res("GetPostAny", slug, <<>>, "ErrNoRows")
    /\ UNCHANGED <<table, saved, nsvars>>

ListPosts(tag) ==
    /\ \E out \in StoreListPosts(table, tag) : sres' = Res("ListPosts", tag, out, "nil")
    /\ UNCHANGED <<table, saved, nsvars>>

ListTags ==
    /\ sres' = Res("ListTags", <<>>, StoreListTags(table), "nil")
    /\ UNCHANGED <<table, saved, nsvars>>

ListAllPosts ==
    /\ \E out \in StoreListAllPosts(table) : sres' = Res("ListAllPosts", <<>>, out, "nil")
    /\ UNCHANGED <<table, saved, nsvars>>

NextStore ==
    \/ \E p \in PostPool : SavePost(p)
    \/ \E slug \in Slugs : DeletePost(slug) \/ GetPost(slug) \/ GetPostAny(slug)
    \/ \E tag \in TagArgs : ListPosts(tag)
    \/ ListTags
    \/ ListAllPosts

SpecStore == InitStore /\ [][NextStore]_vars

\* The tags a post saved with the given tags is expected to come back with:
\* each tag trimmed and in lower case; a tag that holds commas counts as the
\* tags between them; empty tags before the first and after the last
\* non-empty one are dropped.
RECURSIVE Fields(_)
Fields(tags) ==
    IF tags = <<>> THEN <<>>
    ELSE Split(ToLower(TrimSpace(Head(tags))), ",") \o Fields(Tail(tags))

NormalTags(tags) ==
    LET fs == Fields(tags)
        keep == { i \in 1..Len(fs) : fs[i] # <<>> }
    IN IF keep = {} THEN <<>>
       ELSE [ i \in 1..(1 + (CHOOSE x \in keep : \A y \in keep : y <= x) - Min(keep)) |->
                TrimSpace(fs[i + Min(keep) - 1]) ]

\* The post returned is the post saved, the link apart, which the store makes
\* of the slug.
SameAsSaved(post, p) == [post EXCEPT !.Link = p.Link] = p

\* The post returned is the post saved but for its tags, which are normalized,
\* and its link, which is made of the slug.
SameNormalized(post, p) ==
    /\ [post EXCEPT !.Link = p.Link, !.Tags = p.Tags] = p
    /\ post.Tags = NormalTags(p.Tags)
    /\ post.Link = <<"/blog/", p.Slug>>

\* The slugs saved and not deleted since, and those of them saved as published.
Live == DOMAIN saved
Pub == { sl \in Live : saved[sl].Published }

\* What the last call of the store returned, against the posts last saved,
\* Same being what it is for a returned post to equal a saved one.
StoreContract(Same(_, _)) ==
    LET out == sres.out
        slugs == { out[i].Slug : i \in 1..Len(out) }
    IN /\ sres.op = "GetPost" =>
             IF sres.arg \in Pub
             THEN sres.err = "nil" /\ Len(out) = 1 /\ Same(out[1], saved[sres.arg])
             ELSE sres.err = "ErrNoRows" /\ out = <<>>
       /\ sres.op = "GetPostAny" =>
             IF sres.arg \in Live
             THEN sres.err = "nil" /\ Len(out) = 1 /\ Same(out[1], saved[sres.arg])
             ELSE sres.err = "ErrNoRows" /\ out = <<>>
       /\ sres.op = "ListAllPosts" =>
             /\ sres.err = "nil" /\ slugs = Live /\ Len(out) = Cardinality(Live)
             /\ \A i \in 1..Len(out) : Same(out[i], saved[out[i].Slug])
       /\ sres.op = "ListPosts" =>
             /\ sres.err = "nil" /\ slugs \subseteq Pub /\ Len(out) = Cardinality(slugs)
             /\ sres.arg = <<>> => slugs = Pub
             /\ \A i \in 1..Len(out) : Same(out[i], saved[out[i].Slug])
       /\ sres.op = "ListTags" =>
             /\ sres.err = "nil"
             /\ { out[i] : i \in 1..Len(out) } =
                   UNION { { NormalTags(saved[sl].Tags)[i] :
                               i \in 1..Len(NormalTags(saved[sl].Tags)) } : sl \in Pub }

\* DeletePost of a slug that has no post returns no error and changes nothing.
DeleteOfNoPost ==
    (sres'.op = "DeletePost" /\ sres'.arg \notin Live)
        => sres'.err = "nil" /\ table' = table /\ saved' = saved

\* C23 as stated: after any sequence of SavePost and DeletePost calls the
\* store holds at most one post per slug, equal to the last post saved under
\* that slug and not deleted since; GetPost, ListPosts and ListTags return
\* only published posts, GetPostAny and ListAllPosts unpublished ones too; and
\* DeletePost of a slug that does not exist returns no error and changes
\* nothing.
C23_StoreHoldsLastSaved ==
    /\ [](DOMAIN table = Live /\ StoreContract(SameAsSaved))
    /\ [][DeleteOfNoPost]_vars

\* C23 amended: the same, the post the store holds being the last post saved
\* but for its tags, which are trimmed and in lower case, split at the commas
\* they hold and without the empty ones at either end, and its link, which is
\* "/blog/" and the slug.
C23_StoreHoldsLastSavedNormalized ==
    /\ [](DOMAIN table = Live /\ StoreContract(SameNormalized))
    /\ [][DeleteOfNoPost]_vars

\* As in TestSavePostUpdate and TestGetPostUnpublished: a post saved a second
\* time under its slug, unpublished and with the tag Go, is returned by
\* GetPostAny with its second title and the tag go, while the other slug has
\* no post.
C23_UpdatedPostReturned ==
    /\ sres.op = "GetPostAny" /\ sres.arg = "x" /\ sres.err = "nil"
    /\ saved["x"].Title = "T2" /\ ~saved["x"].Published
    /\ saved["x"].Tags = << <<"G", "o">> >>
    /\ sres.out[1].Title = "T2" /\ sres.out[1].Tags = << <<"g", "o">> >>
    /\ Live = {"x"}

----------------------------------------------------------------------------
(* The post cache: postCache of cache.go and PostCache of part_011, whose   *)
(* reads take the mutex, and PostCache of part_010, whose reads first look  *)
(* under a read lock (ensureLoaded); and the handlers that read through it  *)
(* (handlers.go) and that write to the store and invalidate it              *)
(* (part_010:56-111, main.go:299-322).  A step is a critical section, a     *)
(* query of the store, or what a handler does between them.  A read lock is *)
(* taken and released within one step, so mu is the holder of the write     *)
(* lock, 0 when it is free.  The field at of the cache and of a read is not *)
(* of the program: it is the number of writes the store had taken when the  *)
(* posts were asked of it; nor is loaded: a load has succeeded and          *)
(* Invalidate has not been called since.                                    *)

\* The argument ttl of newPostCache, in ticks of the clock.
ttl == 1

\* The ticks of the clock and the writes the store takes.
MaxClock == 1
MaxWrites == 2

Readers == {1, 2}
Writers == {1}

\* The posts the writing handlers save.
CachePool ==
    { p \in PostPool : /\ p.Slug = "x" /\ p.Date = 1 /\ p.Title = "T1"
                       /\ p.Tags \in { <<>>, << <<"G", "o">> >> } }

\* The reads: ListPosts(""), ListTags() and GetPost("x").
Reads == {"ListPosts", "ListTags", "GetPost"}

\* cache.go:27-29: c.posts != nil && time.Since(c.fetched) < c.ttl.  The only
\* slices c.posts is given are nil and what Store.ListPosts returns, which is
\* nil when no row is selected (markdown.go:498) and not empty otherwise.
valid == cache.posts # <<>> /\ now - cache.fetched < ttl

\* A reading handler that is in no call and has made none.
Reader0 ==
    [pc |-> "idle", need |-> 0, posts |-> <<>>, tags |-> <<>>, at |-> 0,
     op |-> "none", out |-> <<>>, err |-> "nil"]

InitCache ==
    /\ \E kind \in {"Mutex", "RWMutex"} :
          cache = [kind |-> kind, posts |-> <<>>, tags |-> <<>>, fetched |-> 0,
                   at |-> 0, loaded |-> FALSE]
    /\ mu = 0
    /\ readers = [r \in Readers |-> Reader0]
    /\ writers = [w \in Writers |-> [pc |-> "idle", wrote |-> 0]]
    /\ writes = 0 /\ completed = 0
    /\ table = EmptyTable /\ saved = <<>> /\ sres = <<>>
    /\ now = 0 /\ attempts = <<>> /\ mattempts = <<>> /\ lproc = <<>> /\ granted = <<>>
    /\ IdleRender /\ IdleInline /\ IdleURL /\ IdleCalls /\ IdleOutside

\* The variables a step of a reading handler leaves alone.
rdvars == <<table, saved, sres, writers, writes, completed, now, attempts, mattempts,
            lproc, granted, rvars, fvars, uvars, cvars, avars>>

\* The variables a step of a writing handler leaves alone.
wrvars == <<saved, sres, readers, now, attempts, mattempts, lproc, granted,
            rvars, fvars, uvars, cvars, avars>>

\* Time passes.
TickCache ==
    /\ now < MaxClock
    /\ now' = now + 1
    /\ UNCHANGED <<cache, mu, readers, table, writers, writes, completed, saved, sres,
                   attempts, mattempts, lproc, granted, rvars, fvars, uvars, cvars, avars>>

\* What a read returns of the posts and tags it has got (cache.go:67-113,
\* part_010:261-301).
Answer(op, posts, tags) ==
    IF op = "ListPosts" THEN [out |-> posts, err |-> "nil"]
    ELSE IF op = "ListTags" THEN [out |-> tags, err |-> "nil"]
    ELSE With({ i \in 1..Len(posts) : posts[i].Slug = "x" }, LAMBDA found :
            IF found = {} THEN [out |-> <<>>, err |-> "ErrNotFound"]
            ELSE [out |-> <<posts[Min(found)]>>, err |-> "nil"])

\* The read of r returns posts and tags, which are the cache's: it is one of
\* ListPosts, ListTags and GetPost, which differ in nothing before.
Returns(r, posts, tags) ==
    \E op \in Reads :
        readers' = [readers EXCEPT ![r] =
            [pc |-> "idle", need |-> readers[r].need, posts |-> <<>>, tags |-> <<>>,
             at |-> cache.at, op |-> op,
             out |-> Answer(op, posts, tags).out, err |-> Answer(op, posts, tags).err]]

\* A handler calls ListPosts, ListTags or GetPost of the cache (handlers.go:12,
\* 16, 34).
ReadBegin(r) ==
    /\ readers[r].pc = "idle"
    /\ readers' = [readers EXCEPT ![r] =
                      [Reader0 EXCEPT !.pc = IF cache.kind = "RWMutex" THEN "rlock"
                                            ELSE "lock",
                                      !.need = completed]]
    /\ UNCHANGED <<cache, mu, rdvars>>

\* part_010:242-249: under the read lock, the cache is valid and the call
\* returns what it holds, or it is not and the call goes on to the write lock.
ensureLoaded(r) ==
    /\ readers[r].pc = "rlock" /\ mu = 0
    /\ IF valid THEN Returns(r, cache.posts, cache.tags)
       ELSE readers' = [readers EXCEPT ![r].pc = "lock"]
    /\ UNCHANGED <<cache, mu, rdvars>>

\* cache.go:68, part_010:251: c.mu.Lock()
Lock(r) ==
    /\ readers[r].pc = "lock" /\ mu = 0
    /\ mu' = r
    /\ readers' = [readers EXCEPT ![r].pc = "load"]
    /\ UNCHANGED <<cache, rdvars>>

\* cache.go:39-46: load returns at once when the cache is valid, and asks the
\* store for the published posts when it is not; the query can fail.
load(r) ==
    /\ readers[r].pc = "load"
    /\ IF valid
       THEN readers' = [readers EXCEPT ![r].pc = "unlock"]
       ELSE \/ \E posts \in StoreListPosts(table, <<>>) :
                  readers' = [readers EXCEPT ![r].pc = "tags", ![r].posts = posts,
                                             ![r].at = writes]
            \/ readers' = [readers EXCEPT ![r].pc = "fail"]
    /\ UNCHANGED <<cache, mu, rdvars>>

\* cache.go:47-50: load asks the store for the tags; the query can fail.
loadTags(r) ==
    /\ readers[r].pc = "tags"
    /\ \/ readers' = [readers EXCEPT ![r].pc = "assign", ![r].tags = StoreListTags(table)]
       \/ readers' = [readers EXCEPT ![r].pc = "fail", ![r].posts = <<>>, ![r].at = 0]
    /\ UNCHANGED <<cache, mu, rdvars>>

\* cache.go:51-54: c.posts = posts; c.tags = tags; c.fetched = time.Now()
loadAssign(r) ==
    /\ readers[r].pc = "assign"
    /\ cache' = [cache EXCEPT !.posts = readers[r].posts, !.tags = readers[r].tags,
                              !.fetched = now, !.at = readers[r].at, !.loaded = TRUE]
    /\ readers' = [readers EXCEPT ![r].pc = "unlock", ![r].posts = <<>>,
                                  ![r].tags = <<>>, ![r].at = 0]
    /\ UNCHANGED <<mu, rdvars>>

\* cache.go:73-74, part_010:256: the call takes c.posts and c.tags, unlocks,
\* and returns what it was asked for.
Return(r) ==
    /\ readers[r].pc = "unlock"
    /\ mu' = 0
    /\ Returns(r, cache.posts, cache.tags)
    /\ UNCHANGED <<cache, rdvars>>

\* cache.go:69-72, part_010:253-255: load has failed; the call unlocks and
\* returns the error.
ReturnError(r) ==
    /\ readers[r].pc = "fail"
    /\ mu' = 0
    /\ readers' = [readers EXCEPT ![r] = [Reader0 EXCEPT !.err = "error"]]
    /\ UNCHANGED <<cache, rdvars>>

\* part_010:86-96, main.go:299-309: the handler saves the post.
handleAdminSave(w) ==
    /\ writers[w].pc = "idle" /\ writes < MaxWrites
    /\ \E p \in CachePool : table' = Upsert(table, p)
    /\ writes' = writes + 1
    /\ writers' = [writers EXCEPT ![w] = [pc |-> "invalidate", wrote |-> writes + 1]]
    /\ UNCHANGED <<cache, mu, completed, wrvars>>

\* part_010:105-108, main.go:318-321: the handler deletes the post.
handleAdminDelete(w) ==
    /\ writers[w].pc = "idle" /\ writes < MaxWrites
    /\ table' = Delete(table, "x")
    /\ writes' = writes + 1
    /\ writers' = [writers EXCEPT ![w] = [pc |-> "invalidate", wrote |-> writes + 1]]
    /\ UNCHANGED <<cache, mu, completed, wrvars>>

\* As Invalidate, but without the mutex.
InvalidateUnlocked(w) ==
    /\ writers[w].pc = "invalidate"
    /\ cache' = [cache EXCEPT !.posts = <<>>, !.tags = <<>>, !.loaded = FALSE]
    /\ writers' = [writers EXCEPT ![w] = [pc |-> "idle", wrote |-> 0]]
    /\ completed' = IF writers[w].wrote > completed THEN writers[w].wrote ELSE completed
    /\ UNCHANGED <<table, writes, mu, wrvars>>

\* cache.go:31-36, called at part_010:97, 109: under the mutex, c.posts = nil
\* and c.tags = nil; the handler has then completed its write.
Invalidate(w) ==
    /\ writers[w].pc = "invalidate" /\ mu = 0
    /\ cache' = [cache EXCEPT !.posts = <<>>, !.tags = <<>>, !.loaded = FALSE]
    /\ writers' = [writers EXCEPT ![w] = [pc |-> "idle", wrote |-> 0]]
    /\ completed' = IF writers[w].wrote > completed THEN writers[w].wrote ELSE completed
    /\ UNCHANGED <<table, writes, mu, wrvars>>

NextCache ==
    \/ TickCache
    \/ \E r \in Readers :
          \/ ReadBegin(r) \/ ensureLoaded(r) \/ Lock(r) \/ load(r) \/ loadTags(r)
          \/ loadAssign(r) \/ Return(r) \/ ReturnError(r)
    \/ \E w \in Writers : handleAdminSave(w) \/ handleAdminDelete(w) \/ Invalidate(w)

SpecCache == InitCache /\ [][NextCache]_vars

\* C22: a cache read that starts after a write handler has completed its write
\* to the store and its call of Invalidate returns data that was loaded from
\* the store after that write, however readers and writers interleave.
C22_ReadAfterWriteIsFresh ==
    \A r \in Readers :
        (readers[r].pc = "idle" /\ readers[r].op # "none")
            => readers[r].at >= readers[r].need

\* A read that began before the writes has returned posts loaded before them,
\* and a read that began after both were completed has returned the post the
\* store held after the second.
C22_OldReadThenFreshRead ==
    /\ completed = MaxWrites
    /\ readers[1].pc = "idle" /\ readers[1].op = "ListPosts"
    /\ readers[1].need = 0 /\ readers[1].at = 0
    /\ readers[2].pc = "idle" /\ readers[2].op = "GetPost" /\ readers[2].err = "nil"
    /\ readers[2].need = MaxWrites /\ readers[2].at = MaxWrites

\* The read of r asks the store for the posts in this step.
Queries(r) == readers[r].pc = "load" /\ readers'[r].pc \in {"tags", "fail"}

\* The read of r takes what the cache holds in this step.
Served(r) ==
    \/ readers[r].pc = "load" /\ readers'[r].pc = "unlock"
    \/ readers[r].pc = "rlock" /\ readers'[r].pc = "idle"

\* C28: once a load of the cache has succeeded, a read made before the TTL has
\* expired and before any Invalidate is served from the cache and does not
\* query the store, whatever the store returned, nothing included; and a
\* read at or after the expiry is not served what the cache holds.
C28_ServedFromCacheUntilExpiry ==
    [][\A r \in Readers :
          /\ Queries(r) => ~(cache.loaded /\ now - cache.fetched < ttl)
          /\ Served(r) => cache.loaded /\ now - cache.fetched < ttl]_vars

\* After a load that found a published post, with the TTL not expired, a read
\* has passed load without a query and is about to return the cached posts.
C28_ReadServedFromCache ==
    /\ cache.loaded /\ cache.posts # <<>> /\ now - cache.fetched < ttl
    /\ readers[1].pc = "idle" /\ readers[1].op = "ListPosts"
    /\ readers[1].out = cache.posts
    /\ readers[2].pc = "unlock" /\ readers[2].need = completed
    /\ completed = MaxWrites /\ cache.at = MaxWrites

----------------------------------------------------------------------------
\* A token no argument holds, in the place of the placeholder of block i.
Fresh(i) == << <<"IC0", "IC1", "IC2", "IC3", "IC4", "IC5", "IC6", "IC7">>[i + 1] >>

\* Blocks put back where the tokens of Fresh are, from block i (0-based) on.
RECURSIVE RestoreFresh(_, _, _)
RestoreFresh(str, blocks, i) ==
    IF i >= Len(blocks) THEN str
    ELSE With(ReplaceFirst(str, Fresh(i), blocks[i + 1]),
              LAMBDA t : RestoreFresh(t, blocks, i + 1))

\* The code spans of str replaced by the tokens of Fresh, from position p on.
RECURSIVE ReplaceInlineCodeFresh(_, _, _, _)
ReplaceInlineCodeFresh(str, p, blocks, done) ==
    With(FirstAt(str, p, reInlineCodeAt), LAMBDA q :
        IF q = 0 THEN [out |-> done \o From(str, p), blocks |-> blocks]
        ELSE With(reInlineCodeAt(str, q), LAMBDA match :
             With(done \o Sub(str, p, q - 1) \o Fresh(Len(blocks)), LAMBDA out :
             With(Append(blocks, <<"<code>">> \o match.m1 \o <<"</code>">>),
                  LAMBDA blocks2 :
                  ReplaceInlineCodeFresh(str, match.end + 1, blocks2, out)))))

\* What FormatInline returns for str when every recorded fragment goes back
\* to the place of its own code span and to no other.
EachBlockAtItsSpan(str) ==
    With(ReplaceLink(ReplaceImg(EscapeString(str), 1, 0, <<>>).out, 1), LAMBDA link :
    With(ReplaceInlineCodeFresh(link, 1, <<>>, <<>>), LAMBDA code :
        RestoreFresh(ApplyOutsideTags(code.out), code.blocks, 0)))

\* C24: for every argument, one that holds the characters of a placeholder
\* included, every recorded code fragment is restored at the place of its own
\* code span, no text of the argument is replaced by a fragment, and no
\* placeholder is left in what is returned.
C24_PlaceholderNeverCollides ==
    fpc = "return" =>
        /\ escaped = EachBlockAtItsSpan(s)
        /\ \A i \in 0..(Len(inlineCodeBlocks) - 1) :
              IndexFrom(escaped, Placeholder(i), 1) = 0

\* Two code spans have been restored, each at its place.
C24_TwoSpansRestored ==
    /\ fpc = "return"
    /\ s = <<BT, "*", "b", "*", BT, BT, "*", "b", "*", BT>>
    /\ Len(inlineCodeBlocks) = 2
    /\ escaped = <<"<code>", "*", "b", "*", "</code>", "<code>", "*", "b", "*", "</code>">>

----------------------------------------------------------------------------
\* The positions of the backquotes of str.
Backquotes(str) == { i \in 1..Len(str) : str[i] = BT }

\* The texts between a <code> of str and the first </code> after it.
CodeContents(str) ==
    { Sub(str, i + 1, Min({ j \in i..Len(str) : str[j] = "</code>" }) - 1) :
        i \in { k \in 1..Len(str) : /\ str[k] = "<code>"
                                    /\ \E j \in k..Len(str) : str[j] = "</code>" } }

\* C25: for an argument with one span between single backquotes, what is
\* returned has one code element, and the text between its <code> and </code>
\* is the escaped text between the backquotes and nothing else, also when
\* that text has the form of a link or of an image.
C25_CodeSpanContentIsEscapedText ==
    (fpc = "return" /\ Cardinality(Backquotes(s)) = 2
        /\ Min(Backquotes(s)) + 1 \notin Backquotes(s))
    => /\ Count(escaped, "<code>") = 1
       /\ CodeContents(escaped) =
             { EscapeString(Sub(s, Min(Backquotes(s)) + 1,
                                (CHOOSE q \in Backquotes(s) : q # Min(Backquotes(s))) - 1)) }

\* As in TestFormatInlineCode: a span that holds emphasis marks and a special
\* character is returned as a code element holding the marks and the entity.
C25_MarksAndEntityInCode ==
    /\ fpc = "return"
    /\ s = <<BT, "*", "b", "*", BT, "<">>
    /\ escaped = <<"<code>", "*", "b", "*", "</code>", "&", "l", "t", ";">>

----------------------------------------------------------------------------
\* The elements of a text that FormatInline writes as markup (markdown.go:343,
\* 358, 366, 371-374); everything else is one character of text.
MarkupElements ==
    {"<img ", "fetchpriority=\"high\"", "loading=\"eager\"", " width=\"",
     "\" height=\"", "\" alt=\"", "\" src=\"", "\" style=\"",
     "\" decoding=\"async\"/>", "<a href=\"", AttrsPlain, AttrsNewTab, "</a>",
     "<code>", "</code>", "<strong>", "</strong>", "<em>", "</em>"}

\* The markup elements of str from position i up to the first element of ends,
\* in their order; <<>> if no element of ends follows.
TagMarkup(str, i, ends) ==
    LET js == { j \in i..Len(str) : str[j] \in ends }
    IN IF js = {} THEN <<>>
       ELSE SelectSeq(Sub(str, i, Min(js)), LAMBDA e : e \in MarkupElements)

\* The <img> tag that starts at i has the attributes the image substitution
\* wrote, each with a value of plain text.
ImgIntact(str, i) ==
    \E loadAttr \in {"fetchpriority=\"high\"", "loading=\"eager\""} :
        TagMarkup(str, i, {"\" decoding=\"async\"/>"}) =
            <<"<img ", loadAttr, " width=\"", "\" height=\"", "\" alt=\"", "\" src=\"",
              "\" style=\"", "\" decoding=\"async\"/>">>

\* The <a> tag that starts at i has the attributes the link substitution wrote,
\* its href with a value of plain text.
AIntact(str, i) ==
    \E attrs \in {AttrsPlain, AttrsNewTab} :
        TagMarkup(str, i, {AttrsPlain, AttrsNewTab}) = <<"<a href=\"", attrs>>

\* C26: in the returned text every <img> tag and every <a> tag has exactly the
\* attributes its own substitution wrote: no later substitution has written a
\* tag, or the code element of a span, inside it.
C26_EmittedTagsKeepTheirAttributes ==
    fpc = "return"
    => \A i \in 1..Len(escaped) :
          /\ escaped[i] = "<img " => ImgIntact(escaped, i)
          /\ escaped[i] = "<a href=\"" => AIntact(escaped, i)

\* An image, a link and a code span in one argument have been returned, each
\* tag as its substitution wrote it.
C26_ImageLinkAndCodeReturned ==
    /\ fpc = "return"
    /\ s = <<"!", "[", "a", "]", "(", "/", "i", ")", "{", "s", "|", "1", "|", "2", "}",
             BT, "[", "t", "]", "(", "/", "u", ")", BT>>
    /\ ImgIntact(escaped, 1)
    /\ \E i \in 1..Len(escaped) : escaped[i] = "<a href=\"" /\ AIntact(escaped, i)
    /\ Count(escaped, "<code>") = 1

----------------------------------------------------------------------------
(* One call of FormatInline on a link or an image whose URL is raw, and     *)
(* SafeURL called on raw and then on its own result                         *)

LinkOf(u) == <<"[", "t", "]", "(">> \o u \o <<")">>
ImageOf(u) == <<"!", "[", "a", "]", "(">> \o u \o <<")", "{", "s", "}">>

InitEscape ==
    /\ raw \in Texts(UrlPool, MaxParts)
    /\ ret = <<>> /\ upc = "call"
    /\ s \in {LinkOf(raw), ImageOf(raw)}
    /\ escaped = <<>> /\ inlineCodeBlocks = <<>> /\ fcount = 0
    /\ fpc = "escape"
    /\ IdleRender /\ IdleOthers

\* SafeURL (markdown.go:385-403) called on what it returned
SafeURLAgain ==
    /\ upc = "return"
    /\ ret # <<>>
    /\ ret' = SafeURL(ret)
    /\ upc' = "again"
    /\ UNCHANGED <<raw, rvars, fvars, ovars>>

NextEscape == NextInline \/ NextURL \/ SafeURLAgain

SpecEscape == InitEscape /\ [][NextEscape]_vars

\* What FormatInline returns for LinkOf(u) and for ImageOf(u) when the value
\* of the href or src is v.
LinkWith(v) == <<"<a href=\"">> \o v \o <<AttrsPlain, "t", "</a>">>
ImageWith(v) ==
    <<"<img ", "fetchpriority=\"high\"", " width=\"", "1", "0", "2", "4",
      "\" height=\"", "7", "6", "8", "\" alt=\"", "a", "\" src=\"">>
    \o v \o <<"\" style=\"", "s", "\" decoding=\"async\"/>">>

\* C27: for a link or an image whose URL raw is accepted, the href or src of
\* the returned tag is raw trimmed and escaped once, so that an '&' of raw is
\* written as one '&amp;'; and SafeURL called on a result of its own that is
\* not empty returns that result.
C27_EscapedExactlyOnce ==
    /\ [](fpc = "return" /\ SafeURL(EscapeString(raw)) # <<>>
          => /\ s = LinkOf(raw) => escaped = LinkWith(EscapeString(TrimSpace(raw)))
             /\ s = ImageOf(raw) => escaped = ImageWith(EscapeString(TrimSpace(raw))))
    /\ [][upc' = "again" => ret' = ret]_vars

\* A link whose URL holds an '&' has been returned with one '&amp;', and SafeURL has been called on its own result for that URL.
C27_AmpersandEscapedOnce ==
    /\ fpc = "return"
    /\ raw = <<"/", "&">>
    /\ s = LinkOf(raw)
    /\ escaped = LinkWith(<<"/", "&", "a", "m", "p", ";">>)
    /\ upc = "again"
    /\ ret = <<"/", "&", "a", "m", "p", ";">>

----------------------------------------------------------------------------
\* C29, as stated: a line whose form trimmed of white space starts with the
\* fence mark toggles the code block, a line with white space before the mark
\* included.
C29_TrimmedFenceToggles ==
    [][ (TakesLine /\ HasPrefix(TrimSpace(LastLine(lines')), Fence))
        => inCode' # inCode ]_vars

\* C29, amended: a line toggles the code block exactly when the line itself,
\* trimmed of trailing '\r' only, starts with the fence mark; the rest of an
\* opening line, trimmed of white space, is the language of the block; a line
\* with white space before the mark is no fence: in a code block it is a line
\* of code, and outside it opens no code block.
C29_FenceAtLineStartToggles ==
    [][ TakesLine =>
          /\ inCode' # inCode <=> HasPrefix(LastLine(lines'), Fence)
          /\ (~inCode /\ HasPrefix(LastLine(lines'), Fence))
             => EndsWith(buf', FenceOpening(TrimSpace(From(LastLine(lines'), 4))))
          /\ (inCode /\ ~HasPrefix(LastLine(lines'), Fence)
                /\ HasPrefix(TrimSpace(LastLine(lines')), Fence))
             => buf' = buf \o EscapeString(LastLine(lines')) \o <<"\n">> ]_vars

\* A fence with a language between spaces and a trailing '\r' has opened a
\* block of that language, a line with a space before the mark was written
\* into it as code, and a line that starts with the mark has closed it.
C29_IndentedFenceIsCode ==
    /\ rpc = "loop" /\ ~inCode
    /\ lines = << <<BT, BT, BT, " ", "g", "o", " ", "\r">>, <<" ", BT, BT, BT>>,
                  <<BT, BT, BT>> >>
    /\ buf = FenceOpening(<<"g", "o">>) \o <<" ", BT, BT, BT, "\n">>
             \o <<"</code>", "</pre>", "</div>">>

----------------------------------------------------------------------------
InlineOpen == {"<strong>", "<em>", "<a href=\"", "<code>"}
InlineClose == {"</strong>", "</em>", "</a>", "</code>"}
InlineCloserOf(e) ==
    CASE e = "<strong>" -> "</strong>"
      [] e = "<em>" -> "</em>"
      [] e = "<a href=\"" -> "</a>"
      [] e = "<code>" -> "</code>"

\* The inline tags of str from element i on are balanced and nested, stack
\* being the elements open before i, the innermost first: a closing tag closes
\* the innermost open element, and none is open at the end.
RECURSIVE InlineNested(_, _, _)
InlineNested(str, i, stack) ==
    IF i > Len(str) THEN stack = <<>>
    ELSE IF str[i] \in InlineOpen
    THEN InlineNested(str, i + 1, <<str[i]>> \o stack)
    ELSE IF str[i] \in InlineClose
    THEN /\ stack # <<>>
         /\ InlineCloserOf(Head(stack)) = str[i]
         /\ InlineNested(str, i + 1, Tail(stack))
    ELSE InlineNested(str, i + 1, stack)

\* C30: in the text FormatInline returns, the tags <strong>, <em>, <a> and
\* <code> are balanced and properly nested: every closing tag closes the
\* element opened last and not yet closed, and none is left open.
C30_InlineTagsNested == fpc = "return" => InlineNested(escaped, 1, <<>>)

\* As in TestFormatInlineNested: an italic span inside a bold one, followed by
\* a code span, has been returned with its elements nested.
C30_NestedEmphasisThenCode ==
    /\ fpc = "return"
    /\ s = <<"*", "*", "a", "*", "b", "*", "c", "*", "*", BT, "*", "b", "*", BT>>
    /\ escaped = <<"<strong>", "a", "<em>", "b", "</em>", "c", "</strong>",
                   "<code>", "*", "b", "*", "</code>">>

====
